---- MODULE Spec2Model ----
(***************************************************************************)
(* A model of ascii-img-react: the ripple pool, the wave engine and the    *)
(* grid sampler (src/lib/ripple.ts), the character matcher and its         *)
(* quantized cache (lookup.ts), the character catalog and the contrast     *)
(* enhancer (src/lib/characters.ts), the frame renderer (src/lib/render.ts) *)
(* and the ripple state and animation loops of the AsciiImage and          *)
(* AsciiVideo components (src/components/AsciiImage.tsx, AsciiVideo.tsx).  *)
(*                                                                         *)
(* Numbers.  Times are integer milliseconds, coordinates of ripples are    *)
(* integer pixels.  Lightness, wave and shape-vector values are fixed-point *)
(* integers counted in units of 1/FP, so 1.0 is FP and 0.5 is FP \div 2.    *)
(***************************************************************************)
EXTENDS Integers, Sequences, FiniteSets, TLC

VARIABLES
    pool,        \* the caller's Ripple[] (library-level sessions)
    clock,       \* performance.now(), in ms
    ever,        \* history: every ripple pushed so far, in push order
    call,        \* the last library call: its name, arguments and return value
    characters,  \* CachedCharacterLookup.characters
    cache,       \* CachedCharacterLookup.cache, a Map<number, string>
    props,              \* AsciiImage: the props of the mounted component
    imageData,          \* AsciiImage: useState imageData
    animatedAsciiData,  \* AsciiImage: useState animatedAsciiData
    staticAsciiData,    \* AsciiImage: useMemo staticAsciiData
    updates,            \* React: the state updates queued for the next render
    closure,            \* what the live animate callback closes over
    rafPending,         \* a requestAnimationFrame(animate) is outstanding
    dirty,              \* React: effects of the last commit that have not run yet
    rainOn,             \* the rain effect's setInterval is installed
    isPlaying,          \* AsciiVideo: useState isPlaying
    canvasDims,         \* AsciiVideo: useState canvasDims (isReady is set with it)
    lastFrameTimeRef,   \* AsciiVideo: lastFrameTimeRef.current
    asciiFrame,         \* AsciiVideo: what the last setAsciiData frame was made of
    lastCapture         \* history: when captureFrame was last followed by
                        \* renderAsciiFrame since the video started playing

sessionVars == <<pool, clock, ever>>

lookupVars == <<characters, cache>>

videoVars == <<isPlaying, canvasDims, lastFrameTimeRef, asciiFrame, lastCapture>>

componentVars == <<props, imageData, animatedAsciiData, staticAsciiData, updates,
                   closure, rafPending, dirty, rainOn, videoVars>>

vars == <<sessionVars, call, lookupVars, componentVars>>

(***************************************************************************)
(* Bounds of the model                                                     *)
(***************************************************************************)
MaxTime == 600          \* the clock stops here
TimeStep == 100         \* granularity of the clock
MaxPool == 3            \* ripples pushed in one session
MaxRippleCount == 2     \* rippleCount of one click
MaxCached == 2          \* entries the cache may hold
MaxUpdates == 3         \* state updates queued between two renders
MaxImageTime == 300     \* the clock of a component session stops here
MaxSpawned == 2         \* ripples added in one component session
MaxLookups == 4         \* findBest calls between two clearCache calls
MaxCatalog == 2         \* entries of a catalog handed to normalizeCharacterVectors

Times == {t \in 0..MaxTime : t % TimeStep = 0}

(***************************************************************************)
(* Generic helpers                                                         *)
(***************************************************************************)
Range(s) == {s[i] : i \in DOMAIN s}

Count(s, x) == Cardinality({i \in DOMAIN s : s[i] = x})

Min(a, b) == IF a < b THEN a ELSE b

Max(a, b) == IF a > b THEN a ELSE b

\* { ...a, ...b }: object spread, later keys win
Spread(a, b) == [k \in DOMAIN a \cup DOMAIN b |-> IF k \in DOMAIN b THEN b[k] ELSE a[k]]

(***************************************************************************)
(* lib/lookup.ts constants that fix the fixed-point grid                   *)
(***************************************************************************)
BITS == 5

RANGE == 2 ^ BITS

\* fixed-point resolution: 100 steps per cache bucket, 1.0 = 3200
FP == RANGE * 100

(***************************************************************************)
(* lib/ripple.ts: ripples and the pool                                     *)
(***************************************************************************)
DEFAULT_RIPPLE_CONFIG ==
    [speed |-> 150, amplitude |-> (4 * FP) \div 10, decay |-> 2,
     wavelength |-> 40, duration |-> 2000]

\* createRipple(x, y, config), called when performance.now() = t
createRipple(x, y, config, t) ==
    [originX |-> x, originY |-> y, startTime |-> t,
     config |-> Spread(DEFAULT_RIPPLE_CONFIG, config)]

(***************************************************************************)
(* Fixed-point Math.sqrt and Math.exp                                      *)
(***************************************************************************)
\* floor of the square root, by bisection on lo..hi
RECURSIVE SqrtBetween(_, _, _)
SqrtBetween(n, lo, hi) ==
    IF lo >= hi THEN lo
    ELSE CHOOSE root \in { IF mid * mid <= n THEN SqrtBetween(n, mid, hi)
                           ELSE SqrtBetween(n, lo, mid - 1) :
                           mid \in {(lo + hi + 1) \div 2} } : TRUE

Isqrt(n) == IF n <= 0 THEN 0 ELSE SqrtBetween(n, 0, Min(n, 46340))

\* floor(FP * exp(-k/16)) for k = 0, 1, 2, ...; 0 beyond the table
ExpTable ==
    <<
       3200, 3006, 2823, 2652, 2492, 2341, 2199, 2066, 1940, 1823, 1712, 1609,
       1511, 1419, 1333, 1253, 1177, 1105, 1038, 975, 916, 861, 809, 760,
       714, 670, 630, 591, 556, 522, 490, 461, 433, 406, 382, 359,
       337, 316, 297, 279, 262, 246, 231, 217, 204, 192, 180, 169,
       159, 149, 140, 132, 124, 116, 109, 102, 96, 90, 85, 80,
       75, 70, 66, 62, 58, 55, 51, 48, 45, 42, 40, 37,
       35, 33, 31, 29, 27, 26, 24, 22, 21, 20, 19, 17,
       16, 15, 14, 13, 13, 12, 11, 10, 10, 9, 8, 8,
       7, 7, 6, 6, 6, 5, 5, 5, 4, 4, 4, 3,
       3, 3, 3, 3, 2, 2, 2, 2, 2, 2, 2, 1,
       1, 1, 1, 1, 1, 1, 1, 1, 1, 1
    >>

\* Math.exp(-(num/den)) for num/den >= 0, in units of 1/FP; an argument
\* above zero (num/den < 0) is e^x > 1 and only needs to stay above 1.0
ExpNeg(num, den) ==
    IF den = 0 THEN 0
    ELSE IF num # 0 /\ ((num < 0) # (den < 0)) THEN FP + ((-num) * FP) \div den
    ELSE LET k == (16 * num) \div den
         IN  IF k + 1 > Len(ExpTable) THEN 0 ELSE ExpTable[k + 1]

(***************************************************************************)
(* lib/ripple.ts: the wave                                                 *)
(***************************************************************************)
\* distances are kept in tenths of a pixel
DistUnit == 10

\* the body of calculateWaveValue after its two early returns
WaveBody(x, y, ripple, elapsed) ==
    LET config == ripple.config
        dx == x - ripple.originX
        dy == y - ripple.originY
        distance == Isqrt((dx * dx + dy * dy) * DistUnit * DistUnit)
        rippleRadius == (elapsed * config.speed * DistUnit) \div 1000
        distFromFront == distance - rippleRadius
        ringWidth == (config.wavelength * DistUnit) \div 2
        gaussianPulse == ExpNeg(distFromFront * distFromFront,
                                2 * ringWidth * ringWidth)
        timeDecay == FP - (elapsed * FP) \div config.duration
        timeDecayEased == (timeDecay * timeDecay) \div FP
        distanceDecay == ExpNeg(rippleRadius, config.speed * 3 * DistUnit)
    IN  IF gaussianPulse * 100 < FP THEN 0
        ELSE (((((gaussianPulse * config.amplitude) \div FP)
                  * timeDecayEased) \div FP) * distanceDecay) \div FP

\* mutants: the pending check dropped, the expiry check dropped
calculateWaveValueNoPending(x, y, ripple, currentTime) ==
    LET elapsed == currentTime - ripple.startTime
    IN  IF elapsed > ripple.config.duration THEN 0
        ELSE WaveBody(x, y, ripple, elapsed)

calculateWaveValueNoExpiry(x, y, ripple, currentTime) ==
    LET elapsed == currentTime - ripple.startTime
    IN  IF elapsed < 0 THEN 0
        ELSE WaveBody(x, y, ripple, elapsed)

calculateWaveValue(x, y, ripple, currentTime) ==
    LET elapsed == currentTime - ripple.startTime
    IN  IF elapsed < 0 THEN 0
        ELSE IF elapsed > ripple.config.duration THEN 0
        ELSE WaveBody(x, y, ripple, elapsed)

\* the loop "for (const ripple of ripples) totalWave += ..."
RECURSIVE SumWaves(_, _, _, _, _, _)
SumWaves(x, y, ripples, currentTime, i, totalWave) ==
    IF i > Len(ripples) THEN totalWave
    ELSE SumWaves(x, y, ripples, currentTime, i + 1,
                  totalWave + calculateWaveValue(x, y, ripples[i], currentTime))

\* mutant: no clamp of the summed wave
applyRippleToVectorNoWaveClamp(vector, cellCenterX, cellCenterY, ripples, currentTime) ==
    IF Len(ripples) = 0 THEN vector
    ELSE LET totalWave == SumWaves(cellCenterX, cellCenterY, ripples, currentTime, 1, 0)
         IN  [i \in DOMAIN vector |-> Max(0, Min(FP, vector[i] + totalWave))]

\* mutant: the components are not clamped after the wave is added
applyRippleToVectorNoClamp(vector, cellCenterX, cellCenterY, ripples, currentTime) ==
    IF Len(ripples) = 0 THEN vector
    ELSE LET summed == SumWaves(cellCenterX, cellCenterY, ripples, currentTime, 1, 0)
             totalWave == Max(-(FP \div 2), Min(FP \div 2, summed))
         IN  [i \in DOMAIN vector |-> vector[i] + totalWave]

applyRippleToVector(vector, cellCenterX, cellCenterY, ripples, currentTime) ==
    IF Len(ripples) = 0 THEN vector
    ELSE LET summed == SumWaves(cellCenterX, cellCenterY, ripples, currentTime, 1, 0)
             totalWave == Max(-(FP \div 2), Min(FP \div 2, summed))
         IN  [i \in DOMAIN vector |-> Max(0, Min(FP, vector[i] + totalWave))]

(***************************************************************************)
(* lib/ripple.ts: pool management                                          *)
(***************************************************************************)
\* mutants of the filter callback: the boundary dropped, the pending dropped
PruneKeepsStrict(ripple, currentTime) ==
    LET elapsed == currentTime - ripple.startTime
    IN  elapsed < ripple.config.duration

PruneKeepsStartedOnly(ripple, currentTime) ==
    LET elapsed == currentTime - ripple.startTime
    IN  elapsed >= 0 /\ elapsed <= ripple.config.duration

\* mutant: nothing is ever pruned
PruneKeepsAll(ripple, currentTime) == TRUE

\* the predicate of pruneExpiredRipples' filter callback
PruneKeeps(ripple, currentTime) ==
    LET elapsed == currentTime - ripple.startTime
    IN  elapsed <= ripple.config.duration

\* Array.prototype.filter as the loop it is: visit in order, append the kept
RECURSIVE FilterFrom(_, _, _, _)
FilterFrom(ripples, currentTime, i, acc) ==
    IF i > Len(ripples) THEN acc
    ELSE FilterFrom(ripples, currentTime, i + 1,
                    IF PruneKeeps(ripples[i], currentTime)
                    THEN Append(acc, ripples[i]) ELSE acc)

pruneExpiredRipples(ripples, currentTime) ==
    FilterFrom(ripples, currentTime, 1, <<>>)

\* mutant of the some callback: a pending ripple no longer counts
IsActiveStartedOnly(ripple, currentTime) ==
    LET elapsed == currentTime - ripple.startTime
    IN  elapsed >= 0 /\ elapsed <= ripple.config.duration

\* the predicate of hasActiveRipples' some callback
IsActive(ripple, currentTime) ==
    LET elapsed == currentTime - ripple.startTime
    IN  elapsed <= ripple.config.duration

\* Array.prototype.some: stop at the first element the callback accepts
RECURSIVE SomeFrom(_, _, _)
SomeFrom(ripples, currentTime, i) ==
    IF i > Len(ripples) THEN FALSE
    ELSE IF IsActive(ripples[i], currentTime) THEN TRUE
    ELSE SomeFrom(ripples, currentTime, i + 1)

hasActiveRipples(ripples, currentTime) == SomeFrom(ripples, currentTime, 1)

(***************************************************************************)
(* lib/characters.ts: the character atlas                                  *)
(***************************************************************************)
\* one CHARACTERS entry; the source writes the components in tenths
Ch(char, a, b, c, d, e, f) ==
    LET tenth == FP \div 10
    IN  [char |-> char,
         vector |-> <<a * tenth, b * tenth, c * tenth, d * tenth, e * tenth, f * tenth>>]

\* a TLA+ string cannot hold the grave accent: this one-character string,
\* equal to no other character of the atlas, stands for it
GraveAccent == "\t"

CHARACTERS == <<
    Ch(" ", 0, 0, 0, 0, 0, 0),
    Ch(".", 0, 0, 0, 0, 3, 0),
    Ch(",", 0, 0, 0, 0, 3, 2),
    Ch(":", 0, 0, 3, 0, 3, 0),
    Ch(";", 0, 0, 3, 0, 4, 2),
    Ch("!", 4, 0, 3, 0, 3, 0),
    Ch("?", 5, 5, 2, 4, 3, 0),
    Ch("'", 3, 0, 0, 0, 0, 0),
    Ch("\"", 3, 3, 0, 0, 0, 0),
    Ch(GraveAccent, 3, 0, 0, 0, 0, 0),
    Ch("-", 0, 0, 5, 5, 0, 0),
    Ch("_", 0, 0, 0, 0, 6, 6),
    Ch("=", 0, 0, 5, 5, 5, 5),
    Ch("+", 2, 2, 5, 5, 2, 2),
    Ch("*", 4, 4, 5, 5, 2, 2),
    Ch("/", 0, 4, 3, 3, 4, 0),
    Ch("\\", 4, 0, 3, 3, 0, 4),
    Ch("|", 3, 0, 3, 0, 3, 0),
    Ch("(", 2, 4, 3, 3, 2, 4),
    Ch(")", 4, 2, 3, 3, 4, 2),
    Ch("[", 5, 4, 4, 0, 5, 4),
    Ch("]", 4, 5, 0, 4, 4, 5),
    Ch("{", 2, 4, 4, 2, 2, 4),
    Ch("}", 4, 2, 2, 4, 4, 2),
    Ch("<", 0, 3, 4, 2, 0, 3),
    Ch(">", 3, 0, 2, 4, 3, 0),
    Ch("^", 3, 3, 4, 4, 0, 0),
    Ch("~", 3, 4, 4, 3, 0, 0),
    Ch("#", 6, 6, 7, 7, 6, 6),
    Ch("$", 5, 6, 6, 5, 6, 5),
    Ch("%", 5, 3, 4, 4, 3, 5),
    Ch("&", 5, 4, 5, 5, 6, 5),
    Ch("@", 6, 7, 7, 6, 6, 7),
    Ch("0", 5, 5, 5, 5, 5, 5),
    Ch("1", 3, 3, 2, 3, 3, 4),
    Ch("2", 5, 5, 3, 5, 5, 5),
    Ch("3", 5, 5, 3, 5, 5, 5),
    Ch("4", 4, 5, 5, 5, 2, 4),
    Ch("5", 5, 5, 5, 3, 5, 5),
    Ch("6", 4, 5, 5, 4, 5, 5),
    Ch("7", 5, 5, 2, 4, 2, 4),
    Ch("8", 5, 5, 5, 5, 5, 5),
    Ch("9", 5, 5, 4, 5, 5, 4),
    Ch("A", 4, 4, 6, 6, 5, 5),
    Ch("B", 6, 5, 6, 5, 6, 5),
    Ch("C", 5, 5, 5, 2, 5, 5),
    Ch("D", 6, 5, 5, 5, 6, 5),
    Ch("E", 6, 5, 6, 3, 6, 5),
    Ch("F", 6, 5, 6, 3, 5, 2),
    Ch("G", 5, 5, 5, 4, 5, 5),
    Ch("H", 5, 5, 6, 6, 5, 5),
    Ch("I", 5, 5, 3, 3, 5, 5),
    Ch("J", 3, 5, 2, 4, 5, 4),
    Ch("K", 5, 5, 6, 4, 5, 5),
    Ch("L", 5, 2, 5, 2, 6, 5),
    Ch("M", 6, 6, 6, 6, 5, 5),
    Ch("N", 5, 5, 5, 5, 5, 5),
    Ch("O", 5, 5, 5, 5, 5, 5),
    Ch("P", 6, 5, 6, 5, 5, 2),
    Ch("Q", 5, 5, 5, 5, 5, 6),
    Ch("R", 6, 5, 6, 5, 5, 5),
    Ch("S", 5, 5, 5, 4, 4, 5),
    Ch("T", 6, 6, 3, 3, 3, 3),
    Ch("U", 5, 5, 5, 5, 5, 5),
    Ch("V", 5, 5, 5, 5, 4, 4),
    Ch("W", 5, 5, 6, 6, 6, 6),
    Ch("X", 5, 5, 4, 4, 5, 5),
    Ch("Y", 5, 5, 4, 4, 3, 3),
    Ch("Z", 5, 5, 4, 4, 5, 5),
    Ch("a", 2, 3, 4, 5, 5, 5),
    Ch("b", 5, 2, 5, 4, 5, 4),
    Ch("c", 2, 3, 4, 2, 4, 3),
    Ch("d", 2, 5, 4, 5, 4, 5),
    Ch("e", 2, 3, 5, 4, 4, 3),
    Ch("f", 3, 4, 5, 3, 4, 2),
    Ch("g", 2, 3, 4, 5, 4, 5),
    Ch("h", 5, 2, 5, 4, 4, 4),
    Ch("i", 3, 0, 3, 0, 3, 2),
    Ch("j", 0, 3, 0, 3, 3, 3),
    Ch("k", 5, 2, 5, 4, 4, 4),
    Ch("l", 4, 2, 4, 2, 3, 3),
    Ch("m", 2, 2, 6, 6, 5, 5),
    Ch("n", 2, 2, 5, 4, 4, 4),
    Ch("o", 2, 2, 4, 4, 4, 4),
    Ch("p", 2, 2, 5, 4, 5, 2),
    Ch("q", 2, 2, 4, 5, 2, 5),
    Ch("r", 2, 2, 5, 3, 4, 2),
    Ch("s", 2, 3, 4, 3, 3, 4),
    Ch("t", 4, 3, 5, 3, 3, 4),
    Ch("u", 2, 2, 4, 4, 4, 5),
    Ch("v", 2, 2, 4, 4, 3, 3),
    Ch("w", 2, 2, 5, 5, 5, 5),
    Ch("x", 2, 2, 3, 3, 4, 4),
    Ch("y", 2, 2, 4, 4, 3, 5),
    Ch("z", 2, 3, 3, 4, 4, 3)
    >>

\* the first loop of normalizeCharacterVectors, for component i, over the
\* entries lo..hi in catalog order.  The range is halved to keep the
\* evaluation shallow, and the first half is folded before the second
\* starts (left is bound to its value), so the entries are still visited
\* first to last.
RECURSIVE MaxValueFrom(_, _, _, _, _)
MaxValueFrom(chars, i, lo, hi, maxValue) ==
    IF lo > hi THEN maxValue
    ELSE IF lo = hi
         THEN IF chars[lo].vector[i] > maxValue THEN chars[lo].vector[i] ELSE maxValue
         ELSE LET mid == (lo + hi) \div 2
              IN  CHOOSE result \in
                      { MaxValueFrom(chars, i, mid + 1, hi, left) :
                          left \in {MaxValueFrom(chars, i, lo, mid, maxValue)} } : TRUE

\* mutant: the divisor is kept off zero by adding 1 to it
normalizeCharacterVectorsPlusOne(chars) ==
    LET maxValues == [i \in 1..6 |-> MaxValueFrom(chars, i, 1, Len(chars), 0)]
    IN  [k \in DOMAIN chars |->
            [char |-> chars[k].char,
             vector |-> [i \in DOMAIN chars[k].vector |->
                            (chars[k].vector[i] * FP) \div (maxValues[i] + 1)]]]

\* mutant: one maximum for all six components
normalizeCharacterVectorsOneMax(chars) ==
    LET maxValues == [i \in 1..6 |-> MaxValueFrom(chars, i, 1, Len(chars), 0)]
        maxValue == CHOOSE m \in Range(maxValues) : \A n \in Range(maxValues) : n <= m
    IN  [k \in DOMAIN chars |->
            [char |-> chars[k].char,
             vector |-> [i \in DOMAIN chars[k].vector |->
                            IF maxValue > 0
                            THEN (chars[k].vector[i] * FP) \div maxValue
                            ELSE 0]]]

normalizeCharacterVectors(chars) ==
    LET maxValues == [i \in 1..6 |-> MaxValueFrom(chars, i, 1, Len(chars), 0)]
    IN  [k \in DOMAIN chars |->
            [char |-> chars[k].char,
             vector |-> [i \in DOMAIN chars[k].vector |->
                            IF maxValues[i] > 0
                            THEN (chars[k].vector[i] * FP) \div maxValues[i]
                            ELSE 0]]]

NORMALIZED_CHARACTERS == normalizeCharacterVectors(CHARACTERS)

(***************************************************************************)
(* lib/lookup.ts: the character matcher and its quantized cache            *)
(***************************************************************************)
\* the loop of squaredDistance, over the indices of a
RECURSIVE SquaredDistanceFrom(_, _, _, _)
SquaredDistanceFrom(a, b, i, sum) ==
    IF i > Len(a) THEN sum
    ELSE LET diff == a[i] - b[i]
         IN  SquaredDistanceFrom(a, b, i + 1, sum + diff * diff)

squaredDistance(a, b) == SquaredDistanceFrom(a, b, 1, 0)

\* bestDistance starts at Infinity, written -1 here: no distance is below 0
Infinity == -1

\* mutant of the comparison: a later entry at the same distance wins
CloserOrEqual(dist, bestDistance) ==
    bestDistance = Infinity \/ dist <= bestDistance

\* dist < bestDistance
Closer(dist, bestDistance) ==
    bestDistance = Infinity \/ dist < bestDistance

\* one iteration of findBestCharacter's loop, on entry k
BestStep(samplingVector, chars, k, best) ==
    LET dist == squaredDistance(samplingVector, chars[k].vector)
    IN  IF Closer(dist, best.bestDistance)
        THEN [bestChar |-> chars[k].char, bestDistance |-> dist]
        ELSE best

\* the loop of findBestCharacter over the entries lo..hi in catalog order
\* (halved like MaxValueFrom: first half, then second half)
RECURSIVE BestFrom(_, _, _, _, _)
BestFrom(samplingVector, chars, lo, hi, best) ==
    IF lo > hi THEN best
    ELSE IF lo = hi THEN BestStep(samplingVector, chars, lo, best)
    ELSE LET mid == (lo + hi) \div 2
         IN  CHOOSE result \in
                 { BestFrom(samplingVector, chars, mid + 1, hi, left) :
                     left \in {BestFrom(samplingVector, chars, lo, mid, best)} } : TRUE

findBestCharacter(samplingVector, chars) ==
    BestFrom(samplingVector, chars, 1, Len(chars),
             [bestChar |-> " ", bestDistance |-> Infinity]).bestChar

\* key << BITS on a 32-bit signed integer
ShiftLeftBits(key) ==
    LET low == key % (2 ^ (31 - BITS))
        signBit == (key \div (2 ^ (31 - BITS))) % 2
    IN  IF signBit = 1 THEN low * RANGE - 2 ^ 30 - 2 ^ 30 ELSE low * RANGE

\* mutant: no Math.min(RANGE - 1, .)
QuantizeNoCap(v) == (Max(0, v) * RANGE) \div FP

\* Math.min(RANGE - 1, Math.floor(Math.max(0, v) * RANGE))
Quantize(v) == Min(RANGE - 1, (Max(0, v) * RANGE) \div FP)

\* the loop of generateCacheKey; the low BITS of the shifted key are 0, so
\* or-ing in the bucket adds it
RECURSIVE KeyFrom(_, _, _)
KeyFrom(vector, i, key) ==
    IF i > Len(vector) THEN key
    ELSE KeyFrom(vector, i + 1, ShiftLeftBits(key) + Quantize(vector[i]))

generateCacheKey(vector) == KeyFrom(vector, 1, 0)

\* Map.prototype.set
MapSet(map, key, value) ==
    [k \in DOMAIN map \cup {key} |-> IF k = key THEN value ELSE map[k]]

\* mutant: the cached entry is ignored and overwritten
findBestOverwrite(samplingVector, chars, map) ==
    LET key == generateCacheKey(samplingVector)
        result == findBestCharacter(samplingVector, chars)
    IN  [ret |-> result, cache |-> MapSet(map, key, result)]

\* CachedCharacterLookup.findBest: what it returns and the cache it leaves
findBest(samplingVector, chars, map) ==
    LET key == generateCacheKey(samplingVector)
    IN  IF key \in DOMAIN map
        THEN [ret |-> map[key], cache |-> map]
        ELSE LET result == findBestCharacter(samplingVector, chars)
             IN  [ret |-> result, cache |-> MapSet(map, key, result)]

(***************************************************************************)
(* lib/ripple.ts (sampling): a pixel buffer.  Coordinates are counted in   *)
(* units of 1/FP pixel, fractions of a cell in hundredths.  An ImageData   *)
(* is [width, height, data] with data the RGBA bytes, row by row.          *)
(***************************************************************************)
DEFAULT_GRID_CONFIG ==
    [cellWidth |-> 6, cellHeight |-> 12, samplesPerCircle |-> 9, circleRadius |-> 25]

P(x, y) == [x |-> x, y |-> y]

CIRCLE_POSITIONS ==
    << P(25, 17), P(75, 25), P(25, 50), P(75, 50), P(25, 75), P(75, 83) >>

\* (0.2126 r + 0.7152 g + 0.0722 b) / 255, the weights in ten-thousandths
rgbToLightness(r, g, b) ==
    ((2126 * r + 7152 * g + 722 * b) * RANGE) \div (255 * 100)

\* mutant: a coordinate outside the buffer is moved to the nearest edge
samplePixelClamped(image, x, y) ==
    LET ix == Max(0, Min(image.width - 1, x \div FP))
        iy == Max(0, Min(image.height - 1, y \div FP))
        idx == (iy * image.width + ix) * 4
    IN  rgbToLightness(image.data[idx + 1], image.data[idx + 2], image.data[idx + 3])

samplePixel(image, x, y) ==
    LET ix == x \div FP
        iy == y \div FP
    IN  IF ix < 0 \/ ix >= image.width \/ iy < 0 \/ iy >= image.height
        THEN 0
        ELSE LET idx == (iy * image.width + ix) * 4
             IN  rgbToLightness(image.data[idx + 1], image.data[idx + 2],
                                image.data[idx + 3])

\* the indices of imageData.data that samplePixel reads, counted from 0
samplePixelReads(image, x, y) ==
    LET ix == x \div FP
        iy == y \div FP
    IN  IF ix < 0 \/ ix >= image.width \/ iy < 0 \/ iy >= image.height
        THEN {}
        ELSE LET idx == (iy * image.width + ix) * 4
             IN  {idx, idx + 1, idx + 2}

\* Math.ceil(Math.sqrt(n)) for n >= 0
CeilSqrt(n) == IF Isqrt(n) * Isqrt(n) = n THEN Isqrt(n) ELSE Isqrt(n) + 1

\* mutant: every point of the candidate grid is sampled, also the corners
RECURSIVE CircleFromSquare(_, _, _, _, _, _, _)
CircleFromSquare(image, centerX, centerY, radius, gridSize, k, acc) ==
    IF k >= gridSize * gridSize THEN acc
    ELSE LET den == gridSize - 1
             oxn == 2 * (k % gridSize) - den
             oyn == 2 * (k \div gridSize) - den
             px == centerX + (oxn * radius) \div den
             py == centerY + (oyn * radius) \div den
             sums == { IF den > 0
                       THEN [total |-> acc.total + samplePixel(image, px, py),
                             count |-> acc.count + 1]
                       ELSE acc }
         IN  CHOOSE result \in { CircleFromSquare(image, centerX, centerY, radius,
                                                  gridSize, k + 1, next) :
                                 next \in sums } : TRUE

\* the two nested loops of sampleCircle, flattened: step k is gy = k \div
\* gridSize, gx = k % gridSize.  The offset ox = gx / (gridSize - 1) * 2 - 1
\* is kept as the fraction (2 gx - (gridSize - 1)) / (gridSize - 1).
RECURSIVE CircleFrom(_, _, _, _, _, _, _)
CircleFrom(image, centerX, centerY, radius, gridSize, k, acc) ==
    IF k >= gridSize * gridSize THEN acc
    ELSE LET den == gridSize - 1
             oxn == 2 * (k % gridSize) - den
             oyn == 2 * (k \div gridSize) - den
             inside == den > 0 /\ oxn * oxn + oyn * oyn <= den * den
             px == centerX + (oxn * radius) \div den
             py == centerY + (oyn * radius) \div den
             sums == { IF inside
                       THEN [total |-> acc.total + samplePixel(image, px, py),
                             count |-> acc.count + 1]
                       ELSE acc }
         IN  CHOOSE result \in { CircleFrom(image, centerX, centerY, radius,
                                            gridSize, k + 1, next) :
                                 next \in sums } : TRUE

\* mutant: no point-sample shortcut for numSamples = 1
sampleCircleAlwaysGrid(image, centerX, centerY, radius, numSamples) ==
    LET gridSize == CeilSqrt(numSamples)
        sums == CircleFrom(image, centerX, centerY, radius, gridSize, 0,
                           [total |-> 0, count |-> 0])
    IN  IF sums.count > 0 THEN sums.total \div sums.count ELSE 0

sampleCircle(image, centerX, centerY, radius, numSamples) ==
    IF numSamples = 1 THEN samplePixel(image, centerX, centerY)
    ELSE LET gridSize == CeilSqrt(numSamples)
             averages == { IF sums.count > 0 THEN sums.total \div sums.count ELSE 0 :
                           sums \in { CircleFrom(image, centerX, centerY, radius,
                                                 gridSize, 0,
                                                 [total |-> 0, count |-> 0]) } }
         IN  CHOOSE average \in averages : TRUE

\* the body shared by sampleCell and sampleExternalCircles
SampleAt(image, cellX, cellY, config, positions) ==
    LET baseX == cellX * config.cellWidth * FP
        baseY == cellY * config.cellHeight * FP
        radiusX == (config.circleRadius * config.cellWidth * FP) \div 100
        radiusY == (config.circleRadius * config.cellHeight * FP) \div 100
        avgRadius == (radiusX + radiusY) \div 2
    IN  [i \in DOMAIN positions |->
            sampleCircle(image,
                         baseX + (positions[i].x * config.cellWidth * FP) \div 100,
                         baseY + (positions[i].y * config.cellHeight * FP) \div 100,
                         avgRadius, config.samplesPerCircle)]

sampleCell(image, cellX, cellY, config) ==
    SampleAt(image, cellX, cellY, config, CIRCLE_POSITIONS)

\* sampleGrid: the vectors of all cells, row by row
sampleGrid(image, config) ==
    LET cols == image.width \div config.cellWidth
        rows == image.height \div config.cellHeight
    IN  [vectors |-> [k \in 1..(rows * cols) |->
                        sampleCell(image, (k - 1) % cols, (k - 1) \div cols, config)],
         cols |-> cols, rows |-> rows]

EXTERNAL_CIRCLE_POSITIONS ==
    << P(25, -17), P(75, -8), P(-8, 33), P(108, 33), P(-8, 67),
       P(108, 67), P(25, 92), P(75, 108), P(50, -12), P(50, 100) >>

sampleExternalCircles(image, cellX, cellY, config) ==
    SampleAt(image, cellX, cellY, config, EXTERNAL_CIRCLE_POSITIONS)

(***************************************************************************)
(* lib/characters.ts: contrast enhancement.  An exponent is a fraction     *)
(* [num, den] with den 1 or 2, so 1.5 is [num |-> 3, den |-> 2].           *)
(***************************************************************************)
\* indices into the external vector, counted from 1
AFFECTING_EXTERNAL_INDICES ==
    << <<1, 2, 3, 9>>, <<1, 2, 4, 9>>, <<3, 5, 1, 7>>,
       <<4, 6, 2, 8>>, <<5, 7, 10, 3>>, <<6, 8, 10, 4>> >>

Exponent(num, den) == [num |-> num, den |-> den]

\* exponent <= 1, exponent > 1
AtMostOne(exponent) == exponent.num <= exponent.den

\* base^k for a base in [0,1] and an integer k >= 0
RECURSIVE IntPow(_, _)
IntPow(base, k) == IF k <= 0 THEN FP ELSE (IntPow(base, k - 1) * base) \div FP

\* Math.pow(base, exponent) for a base in [0,1]: an odd number of halves is
\* the square root of the integer power
Pow(base, exponent) ==
    IF exponent.den = 1 THEN IntPow(base, exponent.num)
    ELSE Isqrt(IntPow(base, exponent.num) * FP)

\* the rest of Math.max(...vector), from index i on
RECURSIVE MaxOf(_, _, _)
MaxOf(vector, i, m) ==
    IF i > Len(vector) THEN m
    ELSE MaxOf(vector, i + 1, IF vector[i] > m THEN vector[i] ELSE m)

\* value / maxValue, to the exponent, times maxValue
Enhance(value, maxValue, exponent) ==
    (Pow((value * FP) \div maxValue, exponent) * maxValue) \div FP

\* mutant: the exponent is applied whatever its value
applyGlobalContrastAnyExponent(vector, exponent) ==
    LET maxValue == MaxOf(vector, 2, vector[1])
    IN  IF maxValue <= 0 THEN vector
        ELSE [i \in DOMAIN vector |-> Enhance(vector[i], maxValue, exponent)]

applyGlobalContrast(vector, exponent) ==
    IF AtMostOne(exponent) THEN vector
    ELSE LET maxValue == MaxOf(vector, 2, vector[1])
         IN  IF maxValue <= 0 THEN vector
             ELSE [i \in DOMAIN vector |-> Enhance(vector[i], maxValue, exponent)]

\* the loop over AFFECTING_EXTERNAL_INDICES[i]
RECURSIVE ExternalMax(_, _, _, _)
ExternalMax(externalVector, indices, j, maxValue) ==
    IF j > Len(indices) THEN maxValue
    ELSE ExternalMax(externalVector, indices, j + 1,
                     IF externalVector[indices[j]] > maxValue
                     THEN externalVector[indices[j]] ELSE maxValue)

applyDirectionalContrast(internalVector, externalVector, exponent) ==
    IF AtMostOne(exponent) THEN internalVector
    ELSE [i \in DOMAIN internalVector |->
            LET value == internalVector[i]
                maxValue == ExternalMax(externalVector, AFFECTING_EXTERNAL_INDICES[i],
                                        1, value)
            IN  IF maxValue <= 0 THEN value
                ELSE Enhance(value, maxValue, exponent)]

\* the null externalVector of a call that samples no external circles (a
\* sampled one has ten components)
Null == <<>>

\* mutant: global contrast first, directional contrast on its result
applyFullContrastGlobalFirst(internalVector, externalVector, globalExponent, directionalExponent) ==
    LET global ==
            IF ~AtMostOne(globalExponent)
            THEN applyGlobalContrast(internalVector, globalExponent)
            ELSE internalVector
    IN  IF externalVector # Null /\ ~AtMostOne(directionalExponent)
        THEN applyDirectionalContrast(global, externalVector, directionalExponent)
        ELSE global

applyFullContrast(internalVector, externalVector, globalExponent, directionalExponent) ==
    LET directed ==
            IF externalVector # Null /\ ~AtMostOne(directionalExponent)
            THEN applyDirectionalContrast(internalVector, externalVector,
                                          directionalExponent)
            ELSE internalVector
    IN  IF ~AtMostOne(globalExponent)
        THEN applyGlobalContrast(directed, globalExponent)
        ELSE directed

(***************************************************************************)
(* lib/render.ts: one frame, through the shared cachedLookup               *)
(***************************************************************************)
\* the vector of cell (col, row) handed to cachedLookup.findBest; each
\* `vector = ...` of the loop body is bound to the value of its one
\* evaluation
CellVector(data, gridConfig, options, ripples, currentTime, col, row) ==
    LET \* (col + 0.5) * cellWidth; the grids used have even cell sizes
        cellCenterX == ((2 * col + 1) * gridConfig.cellWidth) \div 2
        cellCenterY == ((2 * row + 1) * gridConfig.cellHeight) \div 2
        contrastedVectors ==
            { applyFullContrast(sampled, externalVector, options.contrast,
                                IF options.enableDirectionalContrast
                                THEN options.directionalContrast
                                ELSE Exponent(1, 1)) :
                sampled \in {sampleCell(data, col, row, gridConfig)},
                externalVector \in
                    {IF options.enableDirectionalContrast
                     THEN sampleExternalCircles(data, col, row, gridConfig)
                     ELSE Null} }
    IN  CHOOSE vector \in
            { IF Len(ripples) > 0
              THEN applyRippleToVector(contrasted, cellCenterX, cellCenterY, ripples,
                                       currentTime)
              ELSE contrasted : contrasted \in contrastedVectors } : TRUE

\* the two nested loops of renderAsciiFrame, flattened: step k is row
\* k \div cols, col k % cols; acc holds chars and the cache so far.  found
\* is bound to the value of the one findBest call of the cell.
RECURSIVE CellsFrom(_, _, _, _, _, _, _, _, _)
CellsFrom(data, gridConfig, options, ripples, currentTime, chars, cols, k, acc) ==
    IF k >= Len(acc.chars) * cols THEN acc
    ELSE LET row == k \div cols
             col == k % cols
         IN  CHOOSE result \in
                 { CellsFrom(data, gridConfig, options, ripples, currentTime, chars,
                             cols, k + 1,
                             [chars |-> [acc.chars EXCEPT
                                            ![row + 1] = Append(@, found.ret)],
                              cache |-> found.cache]) :
                     found \in
                         { findBest(vector, chars, map) :
                             vector \in {CellVector(data, gridConfig, options, ripples,
                                                    currentTime, col, row)},
                             map \in {acc.cache} } } : TRUE

\* mutant: a partial cell at the right or bottom edge is rendered too
renderAsciiFrameCeil(data, gridConfig, options, ripples, currentTime, chars, map) ==
    LET cols == (data.width + gridConfig.cellWidth - 1) \div gridConfig.cellWidth
        rows == (data.height + gridConfig.cellHeight - 1) \div gridConfig.cellHeight
    IN  CHOOSE result \in
            { [chars |-> done.chars, cols |-> cols, rows |-> rows,
               cache |-> done.cache] :
                done \in {CellsFrom(data, gridConfig, options, ripples, currentTime,
                                    chars, cols, 0,
                                    [chars |-> [r \in 1..rows |-> <<>>],
                                     cache |-> map])} } : TRUE

\* renderAsciiFrame on a cachedLookup over chars whose cache is map: the
\* AsciiData it returns and the cache it leaves
renderAsciiFrame(data, gridConfig, options, ripples, currentTime, chars, map) ==
    LET cols == data.width \div gridConfig.cellWidth
        rows == data.height \div gridConfig.cellHeight
    IN  CHOOSE result \in
            { [chars |-> done.chars, cols |-> cols, rows |-> rows,
               cache |-> done.cache] :
                done \in {CellsFrom(data, gridConfig, options, ripples, currentTime,
                                    chars, cols, 0,
                                    [chars |-> [r \in 1..rows |-> <<>>],
                                     cache |-> map])} } : TRUE

(***************************************************************************)
(* components/AsciiImage.tsx: the component's state under React.           *)
(*                                                                         *)
(* pool is the committed `ripples` state.  A setState call appends to      *)
(* updates; a render applies the queued updates in order and commits; the  *)
(* passive effects of a commit (useEffect) run later, before the next      *)
(* render at the latest.  A nullable value is <<>> (null) or <<v>>.        *)
(***************************************************************************)
Some(v) == <<v>>

Update(hook, kind, value) == [hook |-> hook, kind |-> kind, value |-> value]

\* the values the component reads and writes, as one record
Component ==
    [ripples |-> pool, imageData |-> imageData,
     animatedAsciiData |-> animatedAsciiData, staticAsciiData |-> staticAsciiData,
     updates |-> updates, closure |-> closure, rafPending |-> rafPending,
     dirty |-> dirty, rainOn |-> rainOn, ever |-> ever, cache |-> cache]

\* the next state of the component is the record c
Commit(c) ==
    /\ pool' = c.ripples
    /\ imageData' = c.imageData
    /\ animatedAsciiData' = c.animatedAsciiData
    /\ staticAsciiData' = c.staticAsciiData
    /\ updates' = c.updates
    /\ closure' = c.closure
    /\ rafPending' = c.rafPending
    /\ dirty' = c.dirty
    /\ rainOn' = c.rainOn
    /\ ever' = c.ever
    /\ cache' = c.cache

\* gridConfig and renderOptions, the two useMemo records built from props
GridConfigOf(p) ==
    [cellWidth |-> p.cellWidth, cellHeight |-> p.cellHeight,
     samplesPerCircle |-> 9, circleRadius |-> 25]

RenderOptionsOf(p) ==
    [contrast |-> p.contrast, directionalContrast |-> p.directionalContrast,
     enableDirectionalContrast |-> p.enableDirectionalContrast]

\* renderAscii(data, currentRipples, currentTime) on the shared cachedLookup
renderAscii(data, currentRipples, currentTime, map) ==
    renderAsciiFrame(data, GridConfigOf(props), RenderOptionsOf(props),
                     currentRipples, currentTime, NORMALIZED_CHARACTERS, map)

\* the AsciiData of a renderAsciiFrame result
AsciiDataOf(frame) == [chars |-> frame.chars, cols |-> frame.cols, rows |-> frame.rows]

\* createRainDrop at time t: position and duration are the random draws
createRainDrop(x, y, duration, t) ==
    [originX |-> x, originY |-> y, startTime |-> t,
     config |-> Spread(Spread(DEFAULT_RIPPLE_CONFIG, props.rippleConfig),
                       [duration |-> duration])]

\* the state updates of one hook applied in queue order to value
RECURSIVE ApplyUpdates(_, _, _, _)
ApplyUpdates(value, hook, queue, i) ==
    IF i > Len(queue) THEN value
    ELSE ApplyUpdates(IF queue[i].hook # hook THEN value
                      ELSE IF queue[i].kind = "append" THEN value \o queue[i].value
                      ELSE queue[i].value,
                      hook, queue, i + 1)

Touched(queue, hook) == \E i \in DOMAIN queue : queue[i].hook = hook

\* the animation effect (cleanup of the previous run, then the body)
AnimateEffect(c) ==
    LET cancelled == IF c.closure # Null THEN FALSE ELSE c.rafPending
    IN  IF c.imageData = Null \/ Len(c.ripples) = 0
        THEN [c EXCEPT !.closure = Null, !.rafPending = cancelled]
        ELSE [c EXCEPT !.closure = Some([imageData |-> c.imageData[1],
                                         ripples |-> c.ripples]),
                       !.rafPending = TRUE]

\* the rain effect (cleanup, then the body: the first drop is spawned at once)
RainEffect(c, drop) ==
    IF ~props.enableRain \/ c.imageData = Null
    THEN [c EXCEPT !.rainOn = FALSE]
    ELSE [c EXCEPT !.rainOn = TRUE,
                   !.updates = Append(@, Update("ripples", "append", <<drop>>)),
                   !.ever = Append(@, drop)]

\* the pending passive effects run, in hook order
Flushed(c, drop) ==
    LET a == IF "animate" \in c.dirty THEN AnimateEffect(c) ELSE c
        r == IF "rain" \in c.dirty THEN RainEffect(a, drop) ELSE a
    IN  [r EXCEPT !.dirty = {}]

\* the staticAsciiData useMemo of a render: recomputed when imageData changed
StaticAscii(f, newImageData, reloaded) ==
    IF ~reloaded THEN [data |-> f.staticAsciiData, cache |-> f.cache]
    ELSE IF newImageData = Null THEN [data |-> Null, cache |-> f.cache]
    ELSE LET frame == {renderAscii(newImageData[1], <<>>, 0, f.cache)}
         IN  CHOOSE static \in
                 { [data |-> Some(AsciiDataOf(fr)), cache |-> fr.cache] : fr \in frame } :
                 TRUE

\* one render and commit: pending passive effects first, then the queue
\* (static is bound to the value of the one useMemo evaluation)
Rendered(c, drop) ==
    LET f == Flushed(c, drop)
        newImageData == ApplyUpdates(f.imageData, "imageData", f.updates, 1)
        reloaded == Touched(f.updates, "imageData")
    IN  CHOOSE next \in
            { [f EXCEPT
                  !.ripples = ApplyUpdates(f.ripples, "ripples", f.updates, 1),
                  !.imageData = newImageData,
                  !.animatedAsciiData =
                      ApplyUpdates(f.animatedAsciiData, "animatedAsciiData", f.updates, 1),
                  !.staticAsciiData = static.data,
                  !.cache = static.cache,
                  !.updates = <<>>,
                  !.dirty = (IF reloaded \/ Touched(f.updates, "ripples")
                             THEN {"animate"} ELSE {})
                            \cup (IF reloaded THEN {"rain"} ELSE {})] :
                static \in {StaticAscii(f, newImageData, reloaded)} } : TRUE

\* mutant: the image is always drawn at its natural size
TargetSizeNatural(img, p) == [width |-> img.width, height |-> img.height]

\* img.onload: the size the image is drawn at (a prop that is absent is 0;
\* the canvas keeps the integer part of a size)
TargetSize(img, p) ==
    IF p.width # 0 /\ p.height # 0
    THEN [width |-> p.width * p.cellWidth, height |-> p.height * p.cellHeight]
    ELSE IF p.width # 0
    THEN [width |-> p.width * p.cellWidth,
          height |-> (img.height * p.width * p.cellWidth) \div img.width]
    ELSE IF p.height # 0
    THEN [width |-> (img.width * p.height * p.cellHeight) \div img.height,
          height |-> p.height * p.cellHeight]
    ELSE IF img.width <= 800 /\ img.height <= 600
    THEN [width |-> img.width, height |-> img.height]
    ELSE IF 800 * img.height <= 600 * img.width
    THEN [width |-> 800, height |-> (img.height * 800) \div img.width]
    ELSE [width |-> (img.width * 600) \div img.height, height |-> 600]

\* the ImageData of a canvas of one gray level
UniformImage(width, height, gray) ==
    [width |-> width, height |-> height,
     data |-> [k \in 1..(width * height * 4) |-> IF k % 4 = 0 THEN 255 ELSE gray]]

\* no AsciiVideo is mounted
VideoIdle ==
    /\ isPlaying = FALSE
    /\ canvasDims = Null
    /\ lastFrameTimeRef = 0
    /\ asciiFrame = Null
    /\ lastCapture = Null

\* the state after mount: nothing loaded, no effect has anything to do
ComponentIdle ==
    /\ VideoIdle
    /\ imageData = Null
    /\ animatedAsciiData = Null
    /\ staticAsciiData = Null
    /\ updates = <<>>
    /\ closure = Null
    /\ rafPending = FALSE
    /\ dirty = {}
    /\ rainOn = FALSE

(***************************************************************************)
(* Pool session: a caller that pushes ripples, lets time pass, prunes and  *)
(* asks whether anything is still active                                   *)
(***************************************************************************)
PoolConfigs == { [duration |-> 0], [duration |-> 100], [duration |-> 200] }

timeOffset == 200

\* mutant: every ripple of the burst starts at once
RECURSIVE BurstNoOffset(_, _, _, _, _, _)
BurstNoOffset(x, y, config, t, n, i) ==
    IF i >= n THEN <<>>
    ELSE <<createRipple(x, y, config, t)>> \o BurstNoOffset(x, y, config, t, n, i + 1)

\* the burst a click builds: n ripples, the i-th delayed by i * timeOffset
RECURSIVE Burst(_, _, _, _, _, _)
Burst(x, y, config, t, n, i) ==
    IF i >= n THEN <<>>
    ELSE LET ripple == createRipple(x, y, config, t)
         IN  <<[ripple EXCEPT !.startTime = ripple.startTime + i * timeOffset]>>
             \o Burst(x, y, config, t, n, i + 1)

NoCall == [fn |-> "none"]

\* a Map with no entries
EmptyMap == <<>>

LookupIdle == characters = <<>> /\ cache = EmptyMap

\* no component is mounted
Unmounted == props = <<>> /\ ComponentIdle

PoolInit ==
    /\ pool = <<>>
    /\ clock = 0
    /\ ever = <<>>
    /\ call = NoCall
    /\ LookupIdle
    /\ Unmounted

Push(config, n) ==
    /\ Len(ever) + n <= MaxPool
    /\ LET newRipples == Burst(0, 0, config, clock, n, 0)
       IN  /\ pool' = pool \o newRipples
           /\ ever' = ever \o newRipples
    /\ call' = NoCall
    /\ UNCHANGED <<clock, lookupVars, componentVars>>

Advance ==
    /\ clock + TimeStep <= MaxTime
    /\ clock' = clock + TimeStep
    /\ call' = NoCall
    /\ UNCHANGED <<pool, ever, lookupVars, componentVars>>

\* pool = pruneExpiredRipples(pool, t) at a timestamp t not before the last one
Prune(t) ==
    /\ t >= clock
    /\ clock' = t
    /\ pool' = pruneExpiredRipples(pool, t)
    /\ call' = [fn |-> "pruneExpiredRipples", ripples |-> pool, currentTime |-> t,
                ret |-> pool']
    /\ UNCHANGED <<ever, lookupVars, componentVars>>

HasActive(t) ==
    /\ call' = [fn |-> "hasActiveRipples", ripples |-> pool, currentTime |-> t,
                ret |-> hasActiveRipples(pool, t)]
    /\ UNCHANGED <<sessionVars, lookupVars, componentVars>>

PoolPush == \E config \in PoolConfigs, n \in 1..MaxRippleCount : Push(config, n)

PoolPrune == \E t \in Times : Prune(t)

PoolHasActive == \E t \in Times : HasActive(t)

PoolNext == PoolPush \/ Advance \/ PoolPrune \/ PoolHasActive

SpecPool == PoolInit /\ [][PoolNext]_vars

(***************************************************************************)
(* Wave session: calculateWaveValue and applyRippleToVector applied to     *)
(* pools, points, vectors and times drawn from bounded sets                *)
(***************************************************************************)
\* amplitudes 0.4 (default), 1.0 and -0.8; durations 100 and 200 ms
WaveConfigs ==
    { [duration |-> 200], [duration |-> 100, amplitude |-> FP],
      [duration |-> 200, amplitude |-> -((8 * FP) \div 10)] }

WaveRipples ==
    { createRipple(0, 0, config, t) : config \in WaveConfigs, t \in {0, timeOffset} }

WavePools ==
    {<<>>} \cup { <<r>> : r \in WaveRipples }
           \cup { <<r1, r2>> : r1 \in WaveRipples, r2 \in WaveRipples }

\* points: the origin, a point on the front after 100 ms, a point off it
WavePoints == { <<0, 0>>, <<15, 0>>, <<3, 4>> }

\* components below 0, inside [0,1] and above 1
ComponentValues == { -(FP \div 10), 0, FP \div 2, FP, (12 * FP) \div 10 }

WaveVectors == { <<a, b, a, b, a, b>> : a \in ComponentValues, b \in ComponentValues }

WaveInit ==
    /\ pool \in WavePools
    /\ clock \in Times
    /\ ever = <<>>
    /\ call = NoCall
    /\ LookupIdle
    /\ Unmounted

CallWave(p, i) ==
    /\ i \in DOMAIN pool
    /\ call' = [fn |-> "calculateWaveValue", x |-> p[1], y |-> p[2],
                ripple |-> pool[i], currentTime |-> clock,
                ret |-> calculateWaveValue(p[1], p[2], pool[i], clock)]
    /\ UNCHANGED <<sessionVars, lookupVars, componentVars>>

CallApply(vector, p) ==
    /\ call' = [fn |-> "applyRippleToVector", vector |-> vector,
                cellCenterX |-> p[1], cellCenterY |-> p[2],
                ripples |-> pool, currentTime |-> clock,
                ret |-> applyRippleToVector(vector, p[1], p[2], pool, clock)]
    /\ UNCHANGED <<sessionVars, lookupVars, componentVars>>

WaveCallWave == \E p \in WavePoints, i \in 1..2 : CallWave(p, i)

WaveCallApply == \E vector \in WaveVectors, p \in WavePoints : CallApply(vector, p)

WaveNext == WaveCallWave \/ WaveCallApply

SpecWave == WaveInit /\ [][WaveNext]_vars

(***************************************************************************)
(* Lookup session: one CachedCharacterLookup, built on a catalog, and      *)
(* direct findBestCharacter scans of the same catalog                      *)
(***************************************************************************)
Uniform(v) == <<v, v, v, v, v, v>>

\* the catalog of the spec's scenario A
ScenarioA == << [char |-> " ", vector |-> Uniform(0)],
                [char |-> "#", vector |-> Uniform(FP)] >>

\* entries at equal distance from the all-zero vector, and a duplicate
TieCatalog ==
    << [char |-> "-", vector |-> <<0, 0, FP \div 2, FP \div 2, 0, 0>>],
       [char |-> "_", vector |-> <<0, 0, 0, 0, FP \div 2, FP \div 2>>],
       [char |-> "=", vector |-> <<0, 0, FP \div 2, FP \div 2, 0, 0>>] >>

LookupCatalogs == { <<>>, ScenarioA, TieCatalog, NORMALIZED_CHARACTERS }

\* 0.5 and 0.5 + 1/64 share bucket 16
LookupValues == { 0, FP \div 2, FP \div 2 + FP \div 64, FP }

LookupVectors == { <<a, b, a, b, a, b>> : a \in LookupValues, b \in LookupValues }

SessionIdle == pool = <<>> /\ clock = 0 /\ ever = <<>>

LookupInit ==
    /\ characters \in LookupCatalogs
    /\ cache = EmptyMap
    /\ call = NoCall
    /\ SessionIdle
    /\ Unmounted

FindBest(samplingVector) ==
    LET key == generateCacheKey(samplingVector)
        r == findBest(samplingVector, characters, cache)
    IN  /\ key \in DOMAIN cache \/ Cardinality(DOMAIN cache) < MaxCached
        /\ cache' = r.cache
        /\ call' = [fn |-> "findBest", samplingVector |-> samplingVector,
                    characters |-> characters, hit |-> key \in DOMAIN cache,
                    outcome |-> "return", ret |-> r.ret]
        /\ UNCHANGED <<characters, sessionVars, componentVars>>

FindBestCharacter(samplingVector) ==
    /\ call' = [fn |-> "findBestCharacter", samplingVector |-> samplingVector,
                characters |-> characters, hit |-> FALSE,
                outcome |-> "return",
                ret |-> findBestCharacter(samplingVector, characters)]
    /\ UNCHANGED <<lookupVars, sessionVars, componentVars>>

ClearCache ==
    /\ cache # EmptyMap
    /\ cache' = EmptyMap
    /\ call' = [fn |-> "clearCache"]
    /\ UNCHANGED <<characters, sessionVars, componentVars>>

LookupFindBest == \E v \in LookupVectors : FindBest(v)

LookupFindBestCharacter == \E v \in LookupVectors : FindBestCharacter(v)

LookupNext == LookupFindBest \/ LookupFindBestCharacter \/ ClearCache

SpecLookup == LookupInit /\ [][LookupNext]_vars

(***************************************************************************)
(* Component session: one mounted AsciiImage; the image loads, the user    *)
(* clicks, the rain timer fires, React renders and runs effects, animation *)
(* frames fire, time passes                                                *)
(***************************************************************************)
ImageRippleConfigs == { [duration |-> 100] }

ImageProps ==
    { [enableRipple |-> TRUE, enableRain |-> rain, rippleCount |-> n,
       rippleConfig |-> config, width |-> 1, height |-> 1,
       cellWidth |-> 2, cellHeight |-> 2,
       contrast |-> Exponent(3, 2), directionalContrast |-> Exponent(2, 1),
       enableDirectionalContrast |-> TRUE] :
        rain \in BOOLEAN, n \in 1..MaxRippleCount, config \in ImageRippleConfigs }

\* the picture behind src: its natural size and its gray level
NaturalSizes == { [width |-> 4, height |-> 2], [width |-> 3, height |-> 5] }

LoadGrays == { 0, 128 }

\* where a click or a raindrop lands, in image pixels
ImagePoints == { <<1, 1>> }

\* where Math.random() puts a raindrop
RainPoints == { <<0, 1>> }

\* the raindrops spawnDrop can create now: the duration varies downwards to
\* 70% of the configured one
RainDrops ==
    LET duration == Spread(DEFAULT_RIPPLE_CONFIG, props.rippleConfig).duration
    IN  { createRainDrop(p[1], p[2], d, clock) :
            p \in RainPoints, d \in {duration, (7 * duration) \div 10} }

ImageInit ==
    /\ props \in ImageProps
    /\ ComponentIdle
    /\ pool = <<>>
    /\ clock = 0
    /\ ever = <<>>
    /\ call = NoCall
    /\ characters = NORMALIZED_CHARACTERS
    /\ cache = EmptyMap

imageFrame == <<clock, call, characters, props, videoVars>>

\* img.onload
ImgOnload ==
    /\ imageData = Null
    /\ ~Touched(updates, "imageData")
    /\ \E img \in NaturalSizes, gray \in LoadGrays :
           LET target == TargetSize(img, props)
           IN  /\ target.width > 0 /\ target.height > 0
               /\ updates' = Append(updates,
                      Update("imageData", "set",
                             Some(UniformImage(target.width, target.height, gray))))
    /\ UNCHANGED <<pool, imageData, animatedAsciiData, staticAsciiData, closure,
                   rafPending, dirty, rainOn, ever, cache, imageFrame>>

\* handleClick, a discrete event: React renders and runs the effects
\* before anything else happens
HandleClick ==
    /\ props.enableRipple
    /\ imageData # Null
    /\ Len(ever) + props.rippleCount <= MaxSpawned
    /\ \E p \in ImagePoints, drop \in RainDrops :
           LET newRipples == Burst(p[1], p[2], props.rippleConfig, clock,
                                   props.rippleCount, 0)
               clicked == [Component EXCEPT
                              !.updates = Append(@, Update("ripples", "append",
                                                           newRipples)),
                              !.ever = @ \o newRipples]
           IN  /\ \E rendered \in {Rendered(clicked, drop)} :
                      \E flushed \in {Flushed(rendered, drop)} : Commit(flushed)
               /\ call' = [fn |-> "handleClick", clickX |-> p[1], clickY |-> p[2],
                           rippleCount |-> props.rippleCount, now |-> clock,
                           newRipples |-> newRipples]
    /\ UNCHANGED <<clock, characters, props, videoVars>>

\* spawnDrop, called by the interval timer
SpawnDrop ==
    /\ rainOn
    /\ Len(ever) < MaxSpawned
    /\ Len(updates) < MaxUpdates
    /\ \E drop \in RainDrops :
           /\ updates' = Append(updates, Update("ripples", "append", <<drop>>))
           /\ ever' = Append(ever, drop)
    /\ UNCHANGED <<pool, imageData, animatedAsciiData, staticAsciiData, closure,
                   rafPending, dirty, rainOn, cache, imageFrame>>

\* React renders the queued updates and commits
Render ==
    /\ updates # <<>>
    /\ \E drop \in RainDrops :
           \E rendered \in {Rendered(Component, drop)} : Commit(rendered)
    /\ UNCHANGED imageFrame

\* React runs the passive effects of the last commit
FlushEffects ==
    /\ dirty # {}
    /\ \E drop \in RainDrops :
           \E flushed \in {Flushed(Component, drop)} : Commit(flushed)
    /\ UNCHANGED imageFrame

\* the animate callback of the animation effect, run by requestAnimationFrame
AnimateFrame ==
    /\ rafPending
    /\ Len(updates) + 2 <= MaxUpdates
    /\ LET now == clock
           activeRipples == pruneExpiredRipples(closure[1].ripples, now)
           pruned == IF Len(activeRipples) # Len(closure[1].ripples)
                     THEN <<Update("ripples", "set", activeRipples)>>
                     ELSE <<>>
       IN  IF hasActiveRipples(activeRipples, now)
           THEN \E frame \in {renderAscii(closure[1].imageData, activeRipples, now,
                                           cache)} :
                    /\ updates' = updates \o pruned
                           \o <<Update("animatedAsciiData", "set",
                                       Some(AsciiDataOf(frame)))>>
                    /\ cache' = frame.cache
                    /\ rafPending' = TRUE
           ELSE /\ updates' = updates \o pruned
                       \o <<Update("animatedAsciiData", "set", Null)>>
                /\ cache' = cache
                /\ rafPending' = FALSE
    /\ UNCHANGED <<pool, imageData, animatedAsciiData, staticAsciiData, closure,
                   dirty, rainOn, ever, imageFrame>>

\* performance.now() moves on by one step; React's pending work (a render,
\* the effects of a commit) takes less than a step
Tick ==
    /\ updates = <<>>
    /\ dirty = {}
    /\ clock + TimeStep <= MaxImageTime
    /\ clock' = clock + TimeStep
    /\ UNCHANGED <<pool, ever, call, lookupVars, componentVars>>

ImageNext ==
    ImgOnload \/ HandleClick \/ SpawnDrop \/ Render \/ FlushEffects \/ AnimateFrame \/ Tick

SpecImage == ImageInit /\ [][ImageNext]_vars

(***************************************************************************)
(* Render session: renderAsciiFrame called on the module's cachedLookup,   *)
(* between direct cachedLookup.findBest calls and clearCache calls         *)
(***************************************************************************)
\* with nine samples per circle and no contrast, the one-cell pictures of
\* gray 73 and of gray 76 give vectors with the same cache key
RenderGrays == { 73, 76 }

\* pictures of one cell, one of two cells side by side, one whose size is
\* no multiple of the cell's, and one narrower than a cell
RenderImages ==
    { UniformImage(2, 2, gray) : gray \in RenderGrays }
    \cup { UniformImage(5, 3, 76), UniformImage(1, 2, 76) }
    \cup { [width |-> 4, height |-> 2,
            data |-> [k \in 1..32 |-> IF k % 4 = 0 THEN 255
                                      ELSE IF ((k - 1) \div 4) % 4 < 2 THEN 76 ELSE 73]] }

RenderGrids ==
    { [cellWidth |-> 2, cellHeight |-> 2, samplesPerCircle |-> 9, circleRadius |-> 25] }

RenderOptions ==
    { [contrast |-> Exponent(3, 2), directionalContrast |-> Exponent(2, 1),
       enableDirectionalContrast |-> TRUE],
      [contrast |-> Exponent(1, 1), directionalContrast |-> Exponent(1, 1),
       enableDirectionalContrast |-> FALSE] }

\* no ripple, and one ripple 100 ms after its start
RenderRipples ==
    { [ripples |-> <<>>, currentTime |-> 0],
      [ripples |-> <<createRipple(1, 1, [duration |-> 200], 0)>>, currentTime |-> TimeStep] }

\* vectors looked up directly on cachedLookup
RenderLookups == { Uniform(FP \div 4), Uniform(FP \div 4 + FP \div 64) }

RenderInit ==
    /\ characters = NORMALIZED_CHARACTERS
    /\ cache = EmptyMap
    /\ call = NoCall
    /\ SessionIdle
    /\ Unmounted

RenderFrame(data, gridConfig, options, ripples, currentTime) ==
    \E frame \in {renderAsciiFrame(data, gridConfig, options, ripples, currentTime,
                                    characters, cache)} :
        /\ Cardinality(DOMAIN frame.cache) <= MaxCached
        /\ cache' = frame.cache
        /\ call' = [fn |-> "renderAsciiFrame", data |-> data, gridConfig |-> gridConfig,
                    options |-> options, ripples |-> ripples,
                    currentTime |-> currentTime, ret |-> AsciiDataOf(frame)]
        /\ UNCHANGED <<characters, sessionVars, componentVars>>

RenderFrames ==
    \E data \in RenderImages, gridConfig \in RenderGrids, options \in RenderOptions,
       r \in RenderRipples :
        RenderFrame(data, gridConfig, options, r.ripples, r.currentTime)

RenderFindBest == \E v \in RenderLookups : FindBest(v)

RenderNext == RenderFrames \/ RenderFindBest \/ ClearCache

SpecRender == RenderInit /\ [][RenderNext]_vars

(***************************************************************************)
(* JavaScript numbers in applyRippleToVector.  A number is an IEEE-754      *)
(* double; a non-negative double is written here as the set of the         *)
(* exponents of its binary digits that are 1, so 0.25 is {-2}, 0.75 is     *)
(* {-1, -2} and 0 is {}.  The magnitudes used stay clear of subnormals and *)
(* of overflow.                                                            *)
(***************************************************************************)
\* significant binary digits of a double
MantissaBits == 53

Highest(S) == CHOOSE i \in S : \A j \in S : j <= i

\* the exact sum of two binary numbers: digits added without carry, then
\* the carries added, until no carry is left
RECURSIVE BinaryAdd(_, _)
BinaryAdd(A, B) ==
    IF B = {} THEN A
    ELSE BinaryAdd((A \cup B) \ (A \cap B), {i + 1 : i \in A \cap B})

\* round to nearest, ties to even, on MantissaBits significant digits
RoundToDouble(S) ==
    IF S = {} THEN {}
    ELSE LET last == Highest(S) - (MantissaBits - 1)
             kept == {i \in S : i >= last}
             rest == {i \in S : i < last}
             up == /\ (last - 1) \in rest
                   /\ (rest # {last - 1} \/ last \in S)
         IN  IF up THEN BinaryAdd(kept, {last}) ELSE kept

\* a + b on doubles
DoubleAdd(A, B) == RoundToDouble(BinaryAdd(A, B))

\* a < b
DoubleLess(A, B) == A # B /\ Highest((A \cup B) \ (A \cap B)) \in B

\* Math.min(a, b)
DoubleMin(A, B) == IF DoubleLess(B, A) THEN B ELSE A

\* calculateWaveValue in doubles, for a point that is the ripple's origin
\* and a ripple that is pending, expired or starts now: at elapsed = 0 and
\* distance = 0 gaussianPulse, timeDecayEased and distanceDecay are exactly
\* 1, and the product is the amplitude
calculateWaveValueDouble(x, y, ripple, currentTime) ==
    LET elapsed == currentTime - ripple.startTime
    IN  IF elapsed < 0 THEN {}
        ELSE IF elapsed > ripple.config.duration THEN {}
        ELSE ripple.config.amplitude

\* the loop "for (const ripple of ripples) totalWave += ..." in doubles
RECURSIVE SumWavesDouble(_, _, _, _, _, _)
SumWavesDouble(x, y, ripples, currentTime, i, totalWave) ==
    IF i > Len(ripples) THEN totalWave
    ELSE SumWavesDouble(x, y, ripples, currentTime, i + 1,
                        DoubleAdd(totalWave,
                                  calculateWaveValueDouble(x, y, ripples[i],
                                                           currentTime)))

\* applyRippleToVector in doubles, for non-negative amplitudes and
\* components: Math.max(-0.5, .) and Math.max(0, .) leave them alone
applyRippleToVectorDouble(vector, cellCenterX, cellCenterY, ripples, currentTime) ==
    IF Len(ripples) = 0 THEN vector
    ELSE LET summed == SumWavesDouble(cellCenterX, cellCenterY, ripples,
                                      currentTime, 1, {})
             totalWave == DoubleMin({-1}, summed)
         IN  [i \in DOMAIN vector |-> DoubleMin({0}, DoubleAdd(vector[i], totalWave))]

(***************************************************************************)
(* Double session: a pool of ripples at one origin, with amplitudes that   *)
(* are doubles, applied to a cell centred on that origin at time 0         *)
(***************************************************************************)
\* 0.25, 0.125 and 2^-55, all within the documented amplitude range 0..1
DoubleAmplitudes == { {-2}, {-3}, {-55} }

\* components 0 and 0.5
DoubleVectors == { [i \in 1..6 |-> {}], [i \in 1..6 |-> {-1}] }

DoubleInit ==
    /\ pool = <<>>
    /\ clock = 0
    /\ ever = <<>>
    /\ call = NoCall
    /\ LookupIdle
    /\ Unmounted

\* the caller adds a ripple that starts now, or one that starts later
DoublePush ==
    /\ Len(pool) < MaxPool
    /\ \E amplitude \in DoubleAmplitudes, start \in {0, TimeStep} :
           pool' = Append(pool, createRipple(1, 1, [amplitude |-> amplitude], start))
    /\ UNCHANGED <<clock, ever, call, lookupVars, componentVars>>

DoubleApply ==
    /\ \E vector \in DoubleVectors :
           call' = [fn |-> "applyRippleToVector", vector |-> vector,
                    cellCenterX |-> 1, cellCenterY |-> 1, ripples |-> pool,
                    currentTime |-> clock,
                    ret |-> applyRippleToVectorDouble(vector, 1, 1, pool, clock)]
    /\ UNCHANGED <<sessionVars, lookupVars, componentVars>>

DoubleNext == DoublePush \/ DoubleApply

SpecDouble == DoubleInit /\ [][DoubleNext]_vars

(***************************************************************************)
(* Normalize session: normalizeCharacterVectors called on a catalog, and   *)
(* again on the catalog it returned                                        *)
(***************************************************************************)
\* raw components, one of them negative
NormalizeValues == { -2, 0, 1, 3 }

NormalizeVectors == { <<a, b, a, b, a, b>> : a \in NormalizeValues, b \in NormalizeValues }

\* the character of the k-th entry
NormalizeChars == << "a", "b", "c", "d" >>

\* the catalogs of at most MaxCatalog entries, and the atlas itself
NormalizeCatalogs ==
    { <<>> }
    \cup UNION { { [k \in 1..n |-> [char |-> NormalizeChars[k], vector |-> vectors[k]]] :
                     vectors \in [1..n -> NormalizeVectors] } : n \in 1..MaxCatalog }
    \cup { CHARACTERS }

NormalizeInit ==
    /\ characters \in NormalizeCatalogs
    /\ cache = EmptyMap
    /\ call = NoCall
    /\ SessionIdle
    /\ Unmounted

\* normalizeCharacterVectors(characters)
Normalize ==
    /\ call' = [fn |-> "normalizeCharacterVectors", characters |-> characters,
                ret |-> normalizeCharacterVectors(characters), again |-> FALSE]
    /\ UNCHANGED <<characters, cache, sessionVars, componentVars>>

\* normalizeCharacterVectors on what the last call returned
NormalizeAgain ==
    /\ call.fn = "normalizeCharacterVectors"
    /\ call' = [fn |-> "normalizeCharacterVectors", characters |-> call.ret,
                ret |-> normalizeCharacterVectors(call.ret), again |-> TRUE]
    /\ UNCHANGED <<characters, cache, sessionVars, componentVars>>

NormalizeNext == Normalize \/ NormalizeAgain

SpecNormalize == NormalizeInit /\ [][NormalizeNext]_vars

(***************************************************************************)
(* Contrast session: one call of applyGlobalContrast,                      *)
(* applyDirectionalContrast or applyFullContrast                           *)
(***************************************************************************)
\* -0.25, 0, 0.5 and 1
ContrastValues == { -(FP \div 4), 0, FP \div 2, FP }

ContrastVectors == { <<a, b, a, b, a, b>> : a \in ContrastValues, b \in ContrastValues }

\* the ten external samples: none above 0, or two levels alternating
ContrastExternals ==
    { [j \in 1..10 |-> c] : c \in {-(FP \div 4), 0} }
    \cup { [j \in 1..10 |-> IF j % 2 = 1 THEN c ELSE d] :
             c \in {0, FP \div 2, FP}, d \in {0, FP \div 2, FP} }

\* 0.5, 1, 1.5 and 2
ContrastExponents == { Exponent(1, 2), Exponent(1, 1), Exponent(3, 2), Exponent(2, 1) }

\* Math.pow of a negative base is a number only for an integer exponent:
\* vectors with a negative component go with an exponent that is an
\* integer or is not applied
PowIsNumber(vector, exponent) ==
    AtMostOne(exponent) \/ exponent.den = 1 \/ \A i \in DOMAIN vector : vector[i] >= 0

ContrastInit ==
    /\ call = NoCall
    /\ LookupIdle
    /\ SessionIdle
    /\ Unmounted

CallGlobalContrast ==
    /\ call = NoCall
    /\ \E vector \in ContrastVectors, exponent \in ContrastExponents :
           /\ PowIsNumber(vector, exponent)
           /\ call' = [fn |-> "applyGlobalContrast", vector |-> vector,
                       exponent |-> exponent,
                       ret |-> applyGlobalContrast(vector, exponent)]
    /\ UNCHANGED <<sessionVars, lookupVars, componentVars>>

CallDirectionalContrast ==
    /\ call = NoCall
    /\ \E internalVector \in ContrastVectors, externalVector \in ContrastExternals,
          exponent \in ContrastExponents :
           /\ PowIsNumber(internalVector, exponent)
           /\ call' = [fn |-> "applyDirectionalContrast",
                       internalVector |-> internalVector,
                       externalVector |-> externalVector, exponent |-> exponent,
                       ret |-> applyDirectionalContrast(internalVector, externalVector,
                                                        exponent)]
    /\ UNCHANGED <<sessionVars, lookupVars, componentVars>>

CallFullContrast ==
    /\ call = NoCall
    /\ \E internalVector \in ContrastVectors,
          externalVector \in ContrastExternals \cup {Null},
          globalExponent \in ContrastExponents,
          directionalExponent \in ContrastExponents :
           /\ PowIsNumber(internalVector, globalExponent)
           /\ PowIsNumber(internalVector, directionalExponent)
           /\ call' = [fn |-> "applyFullContrast", internalVector |-> internalVector,
                       externalVector |-> externalVector,
                       globalExponent |-> globalExponent,
                       directionalExponent |-> directionalExponent,
                       ret |-> applyFullContrast(internalVector, externalVector,
                                                 globalExponent, directionalExponent)]
    /\ UNCHANGED <<sessionVars, lookupVars, componentVars>>

ContrastNext == CallGlobalContrast \/ CallDirectionalContrast \/ CallFullContrast

SpecContrast == ContrastInit /\ [][ContrastNext]_vars

(***************************************************************************)
(* Sample session: one call of samplePixel, sampleCell or sampleGrid       *)
(***************************************************************************)
\* an ImageData whose pixel k (from 0) has the colour colours[k + 1]
Picture(width, height, colours) ==
    [width |-> width, height |-> height,
     data |-> [j \in 1..(width * height * 4) |->
                  IF j % 4 = 0 THEN 255 ELSE colours[((j - 1) \div 4) + 1][((j - 1) % 4) + 1]]]

\* every pixel has its own colour
SamplePictures ==
    { Picture(2, 2, << <<10, 20, 30>>, <<200, 0, 90>>, <<0, 255, 0>>, <<255, 255, 255>> >>),
      Picture(3, 1, << <<10, 20, 30>>, <<200, 0, 90>>, <<0, 0, 255>> >>) }

\* coordinates from one pixel left of the buffer to beyond its right edge
SampleCoordinates ==
    { -FP, -1, 0, FP \div 2, FP, 2 * FP - 1, 2 * FP, 3 * FP - 1, 3 * FP, 4 * FP }

SampleColours == { <<0, 0, 0>>, <<128, 128, 128>>, <<200, 0, 90>>, <<255, 255, 255>> }

SampleSizes == { <<4, 4>>, <<5, 3>>, <<6, 8>> }

\* buffers of one colour
SolidPictures ==
    { Picture(size[1], size[2], [k \in 1..(size[1] * size[2]) |-> colour]) :
        size \in SampleSizes, colour \in SampleColours }

SampleGrids ==
    { [cellWidth |-> cell[1], cellHeight |-> cell[2], samplesPerCircle |-> n,
       circleRadius |-> 25] :
        cell \in { <<4, 4>>, <<2, 3>>, <<3, 2>> }, n \in {1, 9} }

SampleInit ==
    /\ call = NoCall
    /\ LookupIdle
    /\ SessionIdle
    /\ Unmounted

CallSamplePixel ==
    /\ call = NoCall
    /\ \E image \in SamplePictures, x \in SampleCoordinates, y \in SampleCoordinates :
           call' = [fn |-> "samplePixel", imageData |-> image, x |-> x, y |-> y,
                    ret |-> samplePixel(image, x, y),
                    reads |-> samplePixelReads(image, x, y)]
    /\ UNCHANGED <<sessionVars, lookupVars, componentVars>>

\* sampleCell on a cell of the grid, or on the column or row just past it
CallSampleCell ==
    /\ call = NoCall
    /\ \E image \in SolidPictures, config \in SampleGrids :
           \E cellX \in 0..(image.width \div config.cellWidth),
              cellY \in 0..(image.height \div config.cellHeight) :
               call' = [fn |-> "sampleCell", imageData |-> image, cellX |-> cellX,
                        cellY |-> cellY, config |-> config,
                        ret |-> sampleCell(image, cellX, cellY, config)]
    /\ UNCHANGED <<sessionVars, lookupVars, componentVars>>

CallSampleGrid ==
    /\ call = NoCall
    /\ \E image \in SolidPictures, config \in SampleGrids :
           call' = [fn |-> "sampleGrid", imageData |-> image, config |-> config,
                    ret |-> sampleGrid(image, config)]
    /\ UNCHANGED <<sessionVars, lookupVars, componentVars>>

SampleNext == CallSamplePixel \/ CallSampleCell \/ CallSampleGrid

SpecSample == SampleInit /\ [][SampleNext]_vars

(***************************************************************************)
(* Claims about the pool                                                   *)
(***************************************************************************)
Expired(ripple, t) == t - ripple.startTime > ripple.config.duration

\* C1: pruning at non-decreasing timestamps never removes a ripple that is
\* pending (clock < startTime) or whose elapsed time is still within its
\* duration: every such ripple ever pushed is in the pool as often as it
\* was pushed.
C1_PendingAndActiveRetained ==
    \A i \in DOMAIN ever :
        LET r == ever[i]
        IN  (clock - r.startTime <= r.config.duration \/ clock < r.startTime)
                => Count(pool, r) = Count(ever, r)

\* a prune has just removed an expired ripple and kept a pending one
C1_Witness ==
    /\ call.fn = "pruneExpiredRipples"
    /\ Len(call.ret) < Len(call.ripples)
    /\ \E i \in DOMAIN pool : clock < pool[i].startTime

\* the indices of the input that are not expired at t
KeptIndices(ripples, t) == {i \in DOMAIN ripples : ~Expired(ripples[i], t)}

\* C2: pruneExpiredRipples returns exactly the ripples with
\* elapsed <= duration, each once, in their input order: the k-th element
\* of the result is the input element at the k-th smallest kept index.
C2_PruneExactInOrder ==
    call.fn = "pruneExpiredRipples" =>
        LET kept == KeptIndices(call.ripples, call.currentTime)
        IN  /\ Len(call.ret) = Cardinality(kept)
            /\ \A i \in kept :
                   call.ret[Cardinality({j \in kept : j <= i})] = call.ripples[i]

\* a prune that dropped a ripple from between two survivors that differ
C2_Witness ==
    /\ call.fn = "pruneExpiredRipples"
    /\ Len(call.ripples) = 3
    /\ Len(call.ret) = 2
    /\ Expired(call.ripples[2], call.currentTime)
    /\ call.ret[1] # call.ret[2]

\* C3: hasActiveRipples is false exactly when the pool is empty or every
\* ripple in it has elapsed > duration (so one pending or active ripple
\* makes it true).
C3_HasActiveExact ==
    call.fn = "hasActiveRipples" =>
        (call.ret = FALSE <=>
            (Len(call.ripples) = 0
             \/ \A i \in DOMAIN call.ripples :
                    Expired(call.ripples[i], call.currentTime)))

\* true for a pool whose only live ripple is pending, behind an expired one
C3_Witness ==
    /\ call.fn = "hasActiveRipples"
    /\ call.ret = TRUE
    /\ Len(call.ripples) >= 2
    /\ Expired(call.ripples[1], call.currentTime)
    /\ \A i \in DOMAIN call.ripples :
           Expired(call.ripples[i], call.currentTime)
           \/ call.currentTime < call.ripples[i].startTime

\* false for a non-empty pool: everything in it has expired
C3_WitnessAllExpired ==
    /\ call.fn = "hasActiveRipples"
    /\ call.ret = FALSE
    /\ Len(call.ripples) > 0

(***************************************************************************)
(* Claims about the wave                                                   *)
(***************************************************************************)
\* C4: calculateWaveValue is exactly 0 whenever the ripple is pending
\* (elapsed < 0) or expired (elapsed > duration); a non-zero value comes
\* only from a ripple with 0 <= elapsed <= duration.
C4_ZeroOutsideLifetime ==
    call.fn = "calculateWaveValue" =>
        LET elapsed == call.currentTime - call.ripple.startTime
        IN  /\ (elapsed < 0 \/ elapsed > call.ripple.config.duration) => call.ret = 0
            /\ call.ret # 0 => (0 <= elapsed /\ elapsed <= call.ripple.config.duration)

\* a pending ripple evaluated at its own origin gives 0
C4_Witness ==
    /\ call.fn = "calculateWaveValue"
    /\ call.currentTime < call.ripple.startTime
    /\ call.x = call.ripple.originX
    /\ call.y = call.ripple.originY
    /\ call.ret = 0

\* an expired ripple gives 0
C4_WitnessExpired ==
    /\ call.fn = "calculateWaveValue"
    /\ call.currentTime - call.ripple.startTime > call.ripple.config.duration
    /\ call.ret = 0

\* an active ripple gives a non-zero value
C4_WitnessActive ==
    /\ call.fn = "calculateWaveValue"
    /\ call.ret # 0

\* the sum S of calculateWaveValue over the pool, as a fold from the right
RECURSIVE WaveSum(_, _, _, _)
WaveSum(x, y, ripples, t) ==
    IF ripples = <<>> THEN 0
    ELSE calculateWaveValue(x, y, Head(ripples), t) + WaveSum(x, y, Tail(ripples), t)

Clamp(v, lo, hi) == IF v < lo THEN lo ELSE IF v > hi THEN hi ELSE v

\* clamp(v[i] + clamp(S, -0.5, 0.5), 0, 1) for every component
ClampFormula(c) ==
    LET S == WaveSum(c.cellCenterX, c.cellCenterY, c.ripples, c.currentTime)
    IN  [i \in DOMAIN c.vector |->
            Clamp(c.vector[i] + Clamp(S, -(FP \div 2), FP \div 2), 0, FP)]

\* C10 as stated: for every vector, pool and time the result is the clamp
\* formula, so every output component lies in [0,1].
C10_Original ==
    call.fn = "applyRippleToVector" =>
        /\ call.ret = ClampFormula(call)
        /\ \A i \in DOMAIN call.ret : 0 <= call.ret[i] /\ call.ret[i] <= FP

\* C10 amended: for a non-empty pool the result is the clamp formula (the
\* same scalar added to every component, every component in [0,1]); for an
\* empty pool the result is the input vector itself, unclamped.
C10_ClampedUnlessEmptyPool ==
    call.fn = "applyRippleToVector" =>
        IF Len(call.ripples) = 0
        THEN call.ret = call.vector
        ELSE /\ call.ret = ClampFormula(call)
             /\ \A i \in DOMAIN call.ret : 0 <= call.ret[i] /\ call.ret[i] <= FP

\* a pool whose waves sum above 0.5: the sum is clamped, and a component
\* pushed above 1 is clamped again
C10_Witness ==
    /\ call.fn = "applyRippleToVector"
    /\ Len(call.ripples) = 2
    /\ WaveSum(call.cellCenterX, call.cellCenterY, call.ripples, call.currentTime)
           > FP \div 2
    /\ \E i \in DOMAIN call.vector :
           call.vector[i] = 0 /\ call.ret[i] = FP \div 2
    /\ \E i \in DOMAIN call.vector :
           call.vector[i] = FP /\ call.ret[i] = FP

\* an empty pool hands back a vector with a component outside [0,1]
C10_WitnessEmptyPool ==
    /\ call.fn = "applyRippleToVector"
    /\ Len(call.ripples) = 0
    /\ \E i \in DOMAIN call.ret : call.ret[i] > FP

(***************************************************************************)
(* Claims about the character matcher                                      *)
(***************************************************************************)
IsMatch(c) == c.fn \in {"findBest", "findBestCharacter"}

\* the six 5-bit buckets packed in a key, first component first
Buckets(key) == [i \in 1..6 |-> (key \div (RANGE ^ (6 - i))) % RANGE]

\* the decoded representative of a key: every bucket's lower edge b/32
Decode(key) == [i \in 1..6 |-> (Buckets(key)[i] * FP) \div RANGE]

\* C7 as stated: whatever was looked up before, findBest returns for v the
\* character a direct findBestCharacter scan returns for the decoded
\* representative of v's quantization key.
C7_CachedEqualsScanOfRepresentative ==
    call.fn = "findBest" =>
        call.ret = findBestCharacter(Decode(generateCacheKey(call.samplingVector)),
                                     call.characters)

\* C8 as stated: on an empty catalog findBestCharacter and findBest signal
\* an invalid-configuration error instead of returning a character.
C8_EmptyCatalogFailsFast ==
    (IsMatch(call) /\ Len(call.characters) = 0) => call.outcome = "throw"

\* squared Euclidean distance of two 6D vectors, written out
EuclidSq(a, b) ==
    (a[1] - b[1]) * (a[1] - b[1]) + (a[2] - b[2]) * (a[2] - b[2])
    + (a[3] - b[3]) * (a[3] - b[3]) + (a[4] - b[4]) * (a[4] - b[4])
    + (a[5] - b[5]) * (a[5] - b[5]) + (a[6] - b[6]) * (a[6] - b[6])

\* m is the first index of chars at minimal distance from v
FirstNearest(chars, v, m) ==
    /\ \A j \in DOMAIN chars :
           EuclidSq(v, chars[m].vector) <= EuclidSq(v, chars[j].vector)
    /\ \A j \in 1..(m - 1) :
           EuclidSq(v, chars[j].vector) > EuclidSq(v, chars[m].vector)

\* C9: on a non-empty catalog findBestCharacter returns the character of
\* the first entry, in catalog order, at minimal squared Euclidean
\* distance; with the catalog of scenario A the all-zero vector gives " "
\* and the all-one vector gives "#".
C9_FirstNearestWins ==
    (call.fn = "findBestCharacter" /\ Len(call.characters) > 0) =>
        /\ \E m \in DOMAIN call.characters :
               /\ FirstNearest(call.characters, call.samplingVector, m)
               /\ call.ret = call.characters[m].char
        /\ (call.characters = ScenarioA /\ call.samplingVector = Uniform(0))
               => call.ret = " "
        /\ (call.characters = ScenarioA /\ call.samplingVector = Uniform(FP))
               => call.ret = "#"

\* two entries tie for the minimum and the earlier one is returned
C9_Witness ==
    /\ call.fn = "findBestCharacter"
    /\ \E m, j \in DOMAIN call.characters :
           /\ m < j
           /\ FirstNearest(call.characters, call.samplingVector, m)
           /\ EuclidSq(call.samplingVector, call.characters[j].vector)
                  = EuclidSq(call.samplingVector, call.characters[m].vector)
           /\ call.characters[j].char # call.characters[m].char
           /\ call.ret = call.characters[m].char

\* scenario A: the all-one vector matched "#"
C9_WitnessScenarioA ==
    /\ call.fn = "findBestCharacter"
    /\ call.characters = ScenarioA
    /\ call.samplingVector = Uniform(FP)
    /\ call.ret = "#"

(***************************************************************************)
(* Claims about the component                                              *)
(***************************************************************************)
\* C5 as stated: the component's pool only loses expired ripples.  Whenever
\* no ripples update is waiting to be rendered, every ripple ever added
\* (by a click or by the rain timer) whose elapsed time is still within its
\* duration is in the committed pool, as often as it was added.
C5_NoLiveRippleLost ==
    ~Touched(updates, "ripples") =>
        \A i \in DOMAIN ever :
            ~Expired(ever[i], clock) => Count(pool, ever[i]) = Count(ever, ever[i])

(***************************************************************************)
(* Claims about the renderer                                               *)
(***************************************************************************)
\* C6 as stated: renderAsciiFrame is a pure function of its arguments.
\* The grid a call returns, whatever was rendered or looked up before it,
\* is the grid the same call returns when it is the first use of the
\* module's cachedLookup.
C6_RenderIsPure ==
    call.fn = "renderAsciiFrame" =>
        call.ret = AsciiDataOf(renderAsciiFrame(call.data, call.gridConfig, call.options,
                                                call.ripples, call.currentTime,
                                                NORMALIZED_CHARACTERS, EmptyMap))

(***************************************************************************)
(* Claims about the order of the pool                                      *)
(***************************************************************************)
\* the sequence s read in the order perm
Permuted(s, perm) == [i \in DOMAIN s |-> s[perm[i]]]

\* C11 as stated: the result of applyRippleToVector is the same for every
\* permutation of the pool.
C11_OrderInvariant ==
    call.fn = "applyRippleToVector" =>
        \A perm \in Permutations(DOMAIN call.ripples) :
            applyRippleToVectorDouble(call.vector, call.cellCenterX, call.cellCenterY,
                                      Permuted(call.ripples, perm), call.currentTime)
                = call.ret

(***************************************************************************)
(* Claims about a click's burst                                            *)
(***************************************************************************)
Pending(ripple, t) == t - ripple.startTime < 0

\* C12: a click with rippleCount = N appends N ripples at the click's
\* position, the i-th (from 0) starting i * 200 ms after the click; at the
\* click all but the first are pending, a ripple of the burst has started
\* only if those before it have, and the committed pool holds every ripple
\* of the burst until that ripple has expired.
C12_BurstCascades ==
    call.fn = "handleClick" =>
        LET burst == call.newRipples
        IN  /\ Len(burst) = call.rippleCount
            /\ \A i \in DOMAIN burst :
                   /\ burst[i].originX = call.clickX
                   /\ burst[i].originY = call.clickY
                   /\ burst[i].startTime = call.now + (i - 1) * 200
                   /\ (clock = call.now /\ i > 1) => Pending(burst[i], clock)
                   /\ \A j \in DOMAIN burst :
                          (j < i /\ ~Pending(burst[i], clock)) => ~Pending(burst[j], clock)
                   /\ (~Touched(updates, "ripples") /\ ~Expired(burst[i], clock))
                          => Count(pool, burst[i]) = Count(ever, burst[i])

\* the second ripple of a burst of two has become active and is in the
\* pool, the first has expired and has been pruned
C12_Witness ==
    /\ call.fn = "handleClick"
    /\ call.rippleCount = 2
    /\ ~Pending(call.newRipples[2], clock)
    /\ ~Expired(call.newRipples[2], clock)
    /\ call.newRipples[2] \in Range(pool)
    /\ Expired(call.newRipples[1], clock)
    /\ call.newRipples[1] \notin Range(pool)
    /\ updates = <<>>

(***************************************************************************)
(* Claims about the character atlas                                        *)
(***************************************************************************)
NonNegative(chars) ==
    \A k \in DOMAIN chars : \A i \in DOMAIN chars[k].vector : chars[k].vector[i] >= 0

\* C13: normalizing an already normalized catalog of non-negative vectors
\* returns a catalog equal to it.
C13_NormalizeIdempotent ==
    (call.fn = "normalizeCharacterVectors" /\ call.again /\ NonNegative(call.characters))
        => call.ret = call.characters

\* a normalized catalog with components strictly between 0 and 1 was
\* normalized again
C13_Witness ==
    /\ call.fn = "normalizeCharacterVectors"
    /\ call.again
    /\ NonNegative(call.characters)
    /\ Len(call.characters) > 1
    /\ \E k \in DOMAIN call.characters : \E i \in 1..6 :
           call.characters[k].vector[i] > 0 /\ call.characters[k].vector[i] < FP
    /\ call.ret = call.characters

\* the maximum of component i over the catalog
DimensionMax(chars, i) ==
    CHOOSE m \in {chars[k].vector[i] : k \in DOMAIN chars} :
        \A k \in DOMAIN chars : chars[k].vector[i] <= m

\* the result keeps the characters and their order, and divides every
\* component by divisor[i], giving 0 where divisor[i] is 0
DividedBy(c, divisor) ==
    /\ DOMAIN c.ret = DOMAIN c.characters
    /\ \A k \in DOMAIN c.characters :
           /\ c.ret[k].char = c.characters[k].char
           /\ DOMAIN c.ret[k].vector = DOMAIN c.characters[k].vector
           /\ \A i \in 1..6 :
                  c.ret[k].vector[i] =
                      IF divisor[i] = 0 THEN 0
                      ELSE (c.characters[k].vector[i] * FP) \div divisor[i]

\* C14 as stated: for every catalog every component is the raw component
\* divided by its dimension's maximum over the catalog, or 0 when that
\* maximum is 0, and each dimension's maximum in the result is 1 or 0.
C14_Original ==
    (call.fn = "normalizeCharacterVectors" /\ Len(call.characters) > 0) =>
        /\ DividedBy(call, [i \in 1..6 |-> DimensionMax(call.characters, i)])
        /\ \A i \in 1..6 : DimensionMax(call.ret, i) \in {0, FP}

\* C14 amended: the divisor is the dimension's maximum when that is
\* positive; a dimension whose maximum is 0 or negative becomes 0
\* throughout.  Each dimension's maximum in the result is 1 or 0.
C14_DividedByPositiveMax ==
    (call.fn = "normalizeCharacterVectors" /\ Len(call.characters) > 0) =>
        /\ DividedBy(call, [i \in 1..6 |-> Max(0, DimensionMax(call.characters, i))])
        /\ \A i \in 1..6 : DimensionMax(call.ret, i) \in {0, FP}

\* a catalog of two entries whose first dimension has maximum 3 and whose
\* second has maximum 1: the components 1 became 1/3 and 1
C14_Witness ==
    /\ call.fn = "normalizeCharacterVectors"
    /\ ~call.again
    /\ Len(call.characters) = 2
    /\ DimensionMax(call.characters, 1) = 3
    /\ DimensionMax(call.characters, 2) = 1
    /\ \E k \in DOMAIN call.characters :
           /\ call.characters[k].vector[1] = 1
           /\ call.ret[k].vector[1] = FP \div 3
    /\ \E k \in DOMAIN call.characters :
           /\ call.characters[k].vector[2] = 1
           /\ call.ret[k].vector[2] = FP

\* a dimension whose components are all negative became 0
C14_WitnessNegative ==
    /\ call.fn = "normalizeCharacterVectors"
    /\ Len(call.characters) > 0
    /\ DimensionMax(call.characters, 1) < 0
    /\ \A k \in DOMAIN call.ret : call.ret[k].vector[1] = 0

(***************************************************************************)
(* Claims about contrast enhancement                                       *)
(***************************************************************************)
\* no component of the set of values is above 0
NoneAboveZero(values) == \A v \in values : v <= 0

\* internal[i] and the external samples that affect component i
Affecting(internalVector, externalVector, i) ==
    {internalVector[i]}
    \cup {externalVector[AFFECTING_EXTERNAL_INDICES[i][j]] :
            j \in DOMAIN AFFECTING_EXTERNAL_INDICES[i]}

\* C15: applyGlobalContrast returns its input when exponent <= 1 or when no
\* component is above 0; applyDirectionalContrast returns the internal
\* vector when exponent <= 1, and leaves component i alone when neither
\* internal[i] nor any external sample affecting it is above 0.
C15_DegenerateContrastIsIdentity ==
    /\ (call.fn = "applyGlobalContrast"
            /\ (call.exponent.num <= call.exponent.den
                    \/ NoneAboveZero(Range(call.vector))))
           => call.ret = call.vector
    /\ call.fn = "applyDirectionalContrast" =>
           /\ call.exponent.num <= call.exponent.den
                  => call.ret = call.internalVector
           /\ \A i \in DOMAIN call.internalVector :
                  NoneAboveZero(Affecting(call.internalVector, call.externalVector, i))
                      => call.ret[i] = call.internalVector[i]

\* exponent 0.5 left a vector with distinct positive components alone
C15_Witness ==
    /\ call.fn = "applyGlobalContrast"
    /\ call.exponent = Exponent(1, 2)
    /\ call.vector[1] = FP \div 2
    /\ call.vector[2] = FP
    /\ call.ret = call.vector

\* exponent 2 changed one component and left alone a negative one that has
\* no affecting sample above 0
C15_WitnessDirectional ==
    /\ call.fn = "applyDirectionalContrast"
    /\ call.exponent = Exponent(2, 1)
    /\ \E i \in DOMAIN call.ret : call.ret[i] # call.internalVector[i]
    /\ \E i \in DOMAIN call.ret :
           /\ call.internalVector[i] < 0
           /\ NoneAboveZero(Affecting(call.internalVector, call.externalVector, i))
           /\ call.ret[i] = call.internalVector[i]

\* C16: applyFullContrast is global contrast applied to the result of
\* directional contrast; the directional step runs only with an external
\* vector and directionalExponent > 1 (global contrast with an exponent
\* <= 1 is the identity, C15), so without it the result is
\* applyGlobalContrast(internal, globalExponent).
C16_FullIsGlobalAfterDirectional ==
    call.fn = "applyFullContrast" =>
        LET directional ==
                call.externalVector # Null
                    /\ call.directionalExponent.num > call.directionalExponent.den
            directed ==
                IF directional
                THEN applyDirectionalContrast(call.internalVector, call.externalVector,
                                              call.directionalExponent)
                ELSE call.internalVector
        IN  /\ call.ret = applyGlobalContrast(directed, call.globalExponent)
            /\ call.globalExponent.num <= call.globalExponent.den => call.ret = directed
            /\ ~directional
                   => call.ret = applyGlobalContrast(call.internalVector,
                                                     call.globalExponent)

\* both steps ran, each changed the vector, and the other order would have
\* given another result
C16_Witness ==
    /\ call.fn = "applyFullContrast"
    /\ call.externalVector # Null
    /\ LET directed == applyDirectionalContrast(call.internalVector, call.externalVector,
                                                call.directionalExponent)
       IN  /\ directed # call.internalVector
           /\ call.ret # directed
           /\ call.ret # applyDirectionalContrast(
                              applyGlobalContrast(call.internalVector,
                                                  call.globalExponent),
                              call.externalVector, call.directionalExponent)

(***************************************************************************)
(* Claims about sampling                                                   *)
(***************************************************************************)
\* (0.2126 r + 0.7152 g + 0.0722 b) / 255, in units of 1/FP
Luma(r, g, b) == ((2126 * r + 7152 * g + 722 * b) * RANGE) \div (255 * 100)

\* the largest integer not above v / FP
Floor(v) == CHOOSE n \in -5..5 : n * FP <= v /\ v < (n + 1) * FP

\* C17: samplePixel returns 0 without reading the pixel array when the
\* floor of x or of y is negative or not below the buffer's extent;
\* otherwise it reads only indices inside the 4 * width * height array and
\* returns the luma of the pixel at (floor x, floor y).
C17_OutOfBoundsIsZero ==
    call.fn = "samplePixel" =>
        LET image == call.imageData
            ix == Floor(call.x)
            iy == Floor(call.y)
        IN  IF ix < 0 \/ ix >= image.width \/ iy < 0 \/ iy >= image.height
            THEN call.ret = 0 /\ call.reads = {}
            ELSE /\ call.reads # {}
                 /\ call.reads \subseteq 0..(4 * image.width * image.height - 1)
                 /\ LET k == 4 * (iy * image.width + ix)
                    IN  call.ret = Luma(image.data[k + 1], image.data[k + 2],
                                        image.data[k + 3])

\* a coordinate just right of the last column, in a row that is not the
\* last: the bytes at the computed index exist (the next row's first pixel,
\* not black), and yet 0 is returned and nothing is read
C17_Witness ==
    /\ call.fn = "samplePixel"
    /\ call.imageData.width = 2
    /\ call.x = 2 * FP
    /\ call.y = FP \div 2
    /\ call.ret = 0
    /\ call.reads = {}

\* a pixel inside the buffer was read
C17_WitnessInside ==
    /\ call.fn = "samplePixel"
    /\ call.x = 2 * FP - 1
    /\ call.y = FP
    /\ call.reads = {12, 13, 14}
    /\ call.ret = FP

\* every pixel of the buffer has the colour of the first
Solid(image) ==
    \A j \in DOMAIN image.data : image.data[j] = image.data[((j - 1) % 4) + 1]

\* the vector has six components, all the lightness of the buffer's colour
AllLightness(vector, image) ==
    /\ Len(vector) = 6
    /\ \A i \in 1..6 : vector[i] = Luma(image.data[1], image.data[2], image.data[3])

\* C18: on a buffer of one colour, with samplesPerCircle = 1, sampleCell
\* gives every cell of the grid (col < cols, row < rows) a vector whose six
\* components all equal the lightness of that colour; a 4x4 buffer with
\* 4x4 cells is a grid of one cell.
C18_UniformBufferUniformVector ==
    /\ (call.fn = "sampleCell" /\ Solid(call.imageData)
            /\ call.config.samplesPerCircle = 1
            /\ (call.cellX + 1) * call.config.cellWidth <= call.imageData.width
            /\ (call.cellY + 1) * call.config.cellHeight <= call.imageData.height)
           => AllLightness(call.ret, call.imageData)
    /\ (call.fn = "sampleGrid" /\ Solid(call.imageData)
            /\ call.config.samplesPerCircle = 1)
           => /\ \A k \in DOMAIN call.ret.vectors :
                     AllLightness(call.ret.vectors[k], call.imageData)
              /\ (call.imageData.width = 4 /\ call.imageData.height = 4
                      /\ call.config.cellWidth = 4 /\ call.config.cellHeight = 4)
                     => /\ call.ret.cols = 1
                        /\ call.ret.rows = 1
                        /\ Len(call.ret.vectors) = 1

\* scenario D: a 4x4 gray buffer, 4x4 cells, one sample per circle
C18_Witness ==
    /\ call.fn = "sampleGrid"
    /\ call.imageData.width = 4
    /\ call.imageData.height = 4
    /\ call.imageData.data[1] = 128
    /\ call.imageData.data[2] = 128
    /\ call.config.cellWidth = 4
    /\ call.config.cellHeight = 4
    /\ call.config.samplesPerCircle = 1
    /\ call.ret.cols = 1
    /\ call.ret.rows = 1
    /\ call.ret.vectors = << [i \in 1..6 |-> Luma(128, 128, 128)] >>
    /\ Luma(128, 128, 128) > 0

\* a cell of a grid of several cells, on a coloured buffer
C18_WitnessCell ==
    /\ call.fn = "sampleCell"
    /\ call.config.samplesPerCircle = 1
    /\ call.cellX = 1
    /\ call.cellY = 1
    /\ (call.cellX + 1) * call.config.cellWidth <= call.imageData.width
    /\ (call.cellY + 1) * call.config.cellHeight <= call.imageData.height
    /\ call.ret = [i \in 1..6 |-> Luma(200, 0, 90)]

(***************************************************************************)
(* Claims about the frame                                                  *)
(***************************************************************************)
CatalogChars == {NORMALIZED_CHARACTERS[k].char : k \in DOMAIN NORMALIZED_CHARACTERS}

\* C19: renderAsciiFrame returns rows = floor(height / cellHeight) and
\* cols = floor(width / cellWidth), and a chars grid of rows rows of cols
\* characters each, every one the char of an entry of the catalog.
C19_GridShape ==
    call.fn = "renderAsciiFrame" =>
        LET rows == CHOOSE n \in 0..call.data.height :
                        /\ n * call.gridConfig.cellHeight <= call.data.height
                        /\ call.data.height < (n + 1) * call.gridConfig.cellHeight
            cols == CHOOSE n \in 0..call.data.width :
                        /\ n * call.gridConfig.cellWidth <= call.data.width
                        /\ call.data.width < (n + 1) * call.gridConfig.cellWidth
        IN  /\ call.ret.rows = rows
            /\ call.ret.cols = cols
            /\ DOMAIN call.ret.chars = 1..rows
            /\ \A r \in 1..rows :
                   /\ DOMAIN call.ret.chars[r] = 1..cols
                   /\ \A c \in 1..cols : call.ret.chars[r][c] \in CatalogChars

\* a 5x3 buffer in 2x2 cells: one row of two characters
C19_Witness ==
    /\ call.fn = "renderAsciiFrame"
    /\ call.data.width = 5
    /\ call.data.height = 3
    /\ call.ret.cols = 2
    /\ call.ret.rows = 1
    /\ Len(call.ret.chars) = 1
    /\ Len(call.ret.chars[1]) = 2

\* a buffer narrower than a cell: one row of no characters
C19_WitnessNoColumn ==
    /\ call.fn = "renderAsciiFrame"
    /\ call.data.width = 1
    /\ call.ret.cols = 0
    /\ call.ret.rows = 1
    /\ call.ret.chars = << <<>> >>

(***************************************************************************)
(* Decay session: calculateWaveValue on two ripples that differ only in    *)
(* RippleConfig.decay, at the same point and time                          *)
(***************************************************************************)
\* decay 1, 2 (the default) and 3
Decays == {1, 2, 3}

\* positive amplitudes 0.4 (default) and 1.0; durations 100, 200 and 2000 ms
DecayConfigs ==
    { [duration |-> 200], [duration |-> 100, amplitude |-> FP],
      [amplitude |-> FP] }

\* the pool holds the ripple of lower decay first, then the one of higher decay
DecayPairs ==
    { << createRipple(0, 0, Spread(config, [decay |-> d[1]]), 0),
         createRipple(0, 0, Spread(config, [decay |-> d[2]]), 0) >> :
        config \in DecayConfigs,
        d \in {e \in Decays \X Decays : e[1] < e[2]} }

DecayInit ==
    /\ pool \in DecayPairs
    /\ clock \in Times
    /\ ever = <<>>
    /\ call = NoCall
    /\ LookupIdle
    /\ Unmounted

CallWaveOnBoth(p) ==
    /\ call = NoCall
    /\ call' = [fn |-> "calculateWaveValue twice", x |-> p[1], y |-> p[2],
                low |-> pool[1], high |-> pool[2], currentTime |-> clock,
                retLow |-> calculateWaveValue(p[1], p[2], pool[1], clock),
                retHigh |-> calculateWaveValue(p[1], p[2], pool[2], clock)]
    /\ UNCHANGED <<sessionVars, lookupVars, componentVars>>

DecayNext == \E p \in WavePoints : CallWaveOnBoth(p)

SpecDecay == DecayInit /\ [][DecayNext]_vars

(***************************************************************************)
(* Claims about decay                                                      *)
(***************************************************************************)
\* the two ripples agree on everything but config.decay
DifferOnlyInDecay(a, b) ==
    /\ a.originX = b.originX /\ a.originY = b.originY
    /\ a.startTime = b.startTime
    /\ \A k \in DOMAIN a.config \ {"decay"} : a.config[k] = b.config[k]
    /\ a.config.decay # b.config.decay

\* C20: of two ripples that differ only in decay, evaluated at the same
\* point and time, the one with the higher decay yields a wave value that is
\* never larger and, where the value is non-zero, strictly smaller.
C20_HigherDecayFadesFaster ==
    (/\ call.fn = "calculateWaveValue twice"
     /\ DifferOnlyInDecay(call.low, call.high)
     /\ call.high.config.decay > call.low.config.decay)
        => /\ call.retHigh <= call.retLow
           /\ call.retLow # 0 => call.retHigh < call.retLow

(***************************************************************************)
(* Size session: one mounted AsciiImage given both width and height, over  *)
(* several cell sizes and source pictures; the image loads, the user       *)
(* clicks, animation frames fire                                           *)
(***************************************************************************)
SizeProps ==
    { [enableRipple |-> TRUE, enableRain |-> FALSE, rippleCount |-> 1,
       rippleConfig |-> [duration |-> 100], width |-> w, height |-> h,
       cellWidth |-> cw, cellHeight |-> 2,
       contrast |-> Exponent(3, 2), directionalContrast |-> Exponent(2, 1),
       enableDirectionalContrast |-> TRUE] :
        w \in {1, 2, 3}, h \in {1, 2}, cw \in {1, 3} }

SizeInit ==
    /\ props \in SizeProps
    /\ ComponentIdle
    /\ pool = <<>>
    /\ clock = 0
    /\ ever = <<>>
    /\ call = NoCall
    /\ characters = NORMALIZED_CHARACTERS
    /\ cache = EmptyMap

SizeNext ==
    ImgOnload \/ HandleClick \/ Render \/ FlushEffects \/ AnimateFrame \/ Tick

SpecSize == SizeInit /\ [][SizeNext]_vars

(***************************************************************************)
(* Claims about the component's grid                                       *)
(***************************************************************************)
\* asciiData: animated data while the pool is non-empty, else static data
asciiData == IF Len(pool) > 0 THEN animatedAsciiData ELSE staticAsciiData

\* C21: given both width = W and height = H, the rendered grid has exactly
\* W columns and H rows, whatever the source image's dimensions.
C21_GridIsWidthByHeight ==
    (props # <<>> /\ asciiData # Null) =>
        /\ asciiData[1].cols = props.width
        /\ asciiData[1].rows = props.height
        /\ Len(asciiData[1].chars) = props.height
        /\ \A r \in 1..props.height : Len(asciiData[1].chars[r]) = props.width

\* a 3 by 2 grid of 3x2 cells is displayed while a ripple runs
C21_Witness ==
    /\ props # <<>>
    /\ props.width = 3 /\ props.height = 2 /\ props.cellWidth = 3
    /\ Len(pool) > 0
    /\ asciiData # Null
    /\ asciiData[1].cols = 3 /\ asciiData[1].rows = 2

\* a 2 by 1 grid of 1x2 cells is displayed from the static render
C21_WitnessStatic ==
    /\ props # <<>>
    /\ props.width = 2 /\ props.height = 1 /\ props.cellWidth = 1
    /\ Len(pool) = 0
    /\ asciiData # Null
    /\ asciiData[1].cols = 2 /\ asciiData[1].rows = 1

(***************************************************************************)
(* lib/ripple.ts: createRainDrop as a function of the Math.random() draws  *)
(* A draw is r / RandomUnit with r in 0..RandomUnit-1; a result is the     *)
(* exact fraction num / den.                                               *)
(***************************************************************************)
RandomUnit == 4

DEFAULT_RAIN_CONFIG == [intensity |-> 3, variation |-> Exponent(3, 10)]

\* value + (Math.random() * 2 - 1) * (value * variation)
applyVariation(value, variation, random) ==
    [num |-> value * (RandomUnit * variation.den
                      + (2 * random - RandomUnit) * variation.num),
     den |-> RandomUnit * variation.den]

\* Math.max(0.1, Math.min(1, a)) on an amplitude in FP steps
ClampAmplitude(a) ==
    IF a.num > FP * a.den THEN [num |-> FP * a.den, den |-> a.den]
    ELSE IF a.num < (FP \div 10) * a.den THEN [num |-> (FP \div 10) * a.den, den |-> a.den]
    ELSE a

\* mutant: baseRippleConfig wins over dropRippleConfig
MergedRippleConfigBaseLast(config, baseRippleConfig) ==
    Spread(Spread(DEFAULT_RIPPLE_CONFIG,
                  IF "dropRippleConfig" \in DOMAIN config THEN config.dropRippleConfig
                  ELSE <<>>),
           baseRippleConfig)

\* { ...DEFAULT_RIPPLE_CONFIG, ...baseRippleConfig, ...config.dropRippleConfig }
MergedRippleConfig(config, baseRippleConfig) ==
    Spread(Spread(DEFAULT_RIPPLE_CONFIG, baseRippleConfig),
           IF "dropRippleConfig" \in DOMAIN config THEN config.dropRippleConfig
           ELSE <<>>)

\* createRainDrop(imageWidth, imageHeight, rainConfig, baseRippleConfig) when
\* performance.now() = t and the seven Math.random() calls return random[1..7]
createRainDropDraws(imageWidth, imageHeight, rainConfig, baseRippleConfig, random, t) ==
    LET config == Spread(DEFAULT_RAIN_CONFIG, rainConfig)
        mergedRippleConfig == MergedRippleConfig(config, baseRippleConfig)
        variation == config.variation
    IN  [originX |-> [num |-> random[1] * imageWidth, den |-> RandomUnit],
         originY |-> [num |-> random[2] * imageHeight, den |-> RandomUnit],
         startTime |-> t,
         config |->
             [speed |-> applyVariation(mergedRippleConfig.speed, variation, random[3]),
              amplitude |-> ClampAmplitude(
                  applyVariation(mergedRippleConfig.amplitude, variation, random[4])),
              decay |-> applyVariation(mergedRippleConfig.decay, variation, random[5]),
              wavelength |-> applyVariation(mergedRippleConfig.wavelength, variation,
                                            random[6]),
              duration |-> applyVariation(mergedRippleConfig.duration, variation,
                                          random[7])]]

(***************************************************************************)
(* Raindrop session: createRainDrop called once on sizes, configs and      *)
(* draws taken from bounded sets                                           *)
(***************************************************************************)
\* the least, the middle and the greatest draw
Draws == {0, RandomUnit \div 2, RandomUnit - 1}

DrawSequences == [1..7 -> Draws]

\* variation 0, 0.3 (the default, by absence) and 1; with and without
\* dropRippleConfig
DropRainConfigs ==
    { <<>>, [variation |-> Exponent(0, 1)], [variation |-> Exponent(1, 1)],
      [variation |-> Exponent(0, 1), dropRippleConfig |-> [speed |-> 100]],
      [dropRippleConfig |-> [amplitude |-> FP, duration |-> 500]] }

DropBaseConfigs == { <<>>, [speed |-> 300, duration |-> 1000] }

DropSizes == { <<1, 1>>, <<4, 2>> }

DropInit ==
    /\ pool = <<>>
    /\ clock \in {0, TimeStep}
    /\ ever = <<>>
    /\ call = NoCall
    /\ LookupIdle
    /\ Unmounted

CallCreateRainDrop ==
    /\ call = NoCall
    /\ \E size \in DropSizes, rainConfig \in DropRainConfigs,
          baseRippleConfig \in DropBaseConfigs, random \in DrawSequences :
           call' = [fn |-> "createRainDrop",
                    imageWidth |-> size[1], imageHeight |-> size[2],
                    rainConfig |-> rainConfig, baseRippleConfig |-> baseRippleConfig,
                    random |-> random,
                    ret |-> createRainDropDraws(size[1], size[2], rainConfig,
                                                baseRippleConfig, random, clock)]
    /\ UNCHANGED <<sessionVars, lookupVars, componentVars>>

DropNext == CallCreateRainDrop

SpecDrop == DropInit /\ [][DropNext]_vars

(***************************************************************************)
(* Claims about raindrops                                                  *)
(***************************************************************************)
\* the merged value of a field: dropRippleConfig, else baseRippleConfig,
\* else the default
MergedValue(k, rainConfig, baseRippleConfig) ==
    IF "dropRippleConfig" \in DOMAIN rainConfig
       /\ k \in DOMAIN rainConfig.dropRippleConfig
    THEN rainConfig.dropRippleConfig[k]
    ELSE IF k \in DOMAIN baseRippleConfig THEN baseRippleConfig[k]
    ELSE DEFAULT_RIPPLE_CONFIG[k]

VariationOf(rainConfig) ==
    IF "variation" \in DOMAIN rainConfig THEN rainConfig.variation
    ELSE DEFAULT_RAIN_CONFIG.variation

\* value * (1 - variation) <= q <= value * (1 + variation), q a fraction
WithinVariation(q, value, variation) ==
    /\ value * (variation.den - variation.num) * q.den <= q.num * variation.den
    /\ q.num * variation.den <= value * (variation.den + variation.num) * q.den

\* C22: createRainDrop returns a ripple with originX in [0,width), originY
\* in [0,height), amplitude in [0.1,1], and speed, decay, wavelength and
\* duration within value*(1 - variation) .. value*(1 + variation) of the
\* merged value (dropRippleConfig, else baseRippleConfig, else the default).
C22_RainDropInRange ==
    call.fn = "createRainDrop" =>
        LET ret == call.ret
            variation == VariationOf(call.rainConfig)
        IN  /\ 0 <= ret.originX.num
            /\ ret.originX.num < call.imageWidth * ret.originX.den
            /\ 0 <= ret.originY.num
            /\ ret.originY.num < call.imageHeight * ret.originY.den
            /\ (FP \div 10) * ret.config.amplitude.den <= ret.config.amplitude.num
            /\ ret.config.amplitude.num <= FP * ret.config.amplitude.den
            /\ \A k \in {"speed", "decay", "wavelength", "duration"} :
                   WithinVariation(ret.config[k],
                                   MergedValue(k, call.rainConfig, call.baseRippleConfig),
                                   variation)

\* speed comes from dropRippleConfig although baseRippleConfig has one too,
\* duration from baseRippleConfig, and the greatest draw places the drop
\* short of the right edge
C22_Witness ==
    /\ call.fn = "createRainDrop"
    /\ "dropRippleConfig" \in DOMAIN call.rainConfig
    /\ "speed" \in DOMAIN call.rainConfig.dropRippleConfig
    /\ "speed" \in DOMAIN call.baseRippleConfig
    /\ call.ret.config.speed.num = 100 * call.ret.config.speed.den
    /\ call.ret.config.duration.num = 1000 * call.ret.config.duration.den
    /\ call.random[1] = RandomUnit - 1
    /\ call.imageWidth = 4

\* variation 1 and the least draw: the amplitude is raised to 0.1
C22_WitnessClamped ==
    /\ call.fn = "createRainDrop"
    /\ VariationOf(call.rainConfig) = Exponent(1, 1)
    /\ call.random[4] = 0
    /\ call.ret.config.amplitude.num = (FP \div 10) * call.ret.config.amplitude.den
    /\ call.ret.config.speed.num = 0

(***************************************************************************)
(* lib/render.ts: the vector of one cell at each stage of the loop body    *)
(***************************************************************************)
\* the vector after sampleCell, after applyFullContrast, and as handed to
\* cachedLookup.findBest
CellStages(data, gridConfig, options, ripples, currentTime, col, row) ==
    LET sampled == sampleCell(data, col, row, gridConfig)
        externalVector ==
            IF options.enableDirectionalContrast
            THEN sampleExternalCircles(data, col, row, gridConfig)
            ELSE Null
        contrasted ==
            applyFullContrast(sampled, externalVector, options.contrast,
                              IF options.enableDirectionalContrast
                              THEN options.directionalContrast
                              ELSE Exponent(1, 1))
        cellCenterX == ((2 * col + 1) * gridConfig.cellWidth) \div 2
        cellCenterY == ((2 * row + 1) * gridConfig.cellHeight) \div 2
    IN  [sampled |-> sampled, contrasted |-> contrasted,
         vector |-> IF Len(ripples) > 0
                    THEN applyRippleToVector(contrasted, cellCenterX, cellCenterY,
                                             ripples, currentTime)
                    ELSE contrasted]

(***************************************************************************)
(* Stage session: the loop body of renderAsciiFrame run on one cell of     *)
(* buffers of byte pixels, under several contrast exponents and pools      *)
(***************************************************************************)
\* black, white, primary colours and mixtures; one cell and two cells
StagePictures ==
    { Picture(2, 2, << <<10, 20, 30>>, <<200, 0, 90>>, <<0, 255, 0>>, <<255, 255, 255>> >>),
      Picture(2, 2, [k \in 1..4 |-> <<255, 255, 255>>]),
      Picture(2, 2, [k \in 1..4 |-> <<0, 0, 0>>]),
      Picture(4, 2, [k \in 1..8 |-> IF k % 4 \in {1, 2} THEN <<0, 0, 255>>
                                    ELSE <<255, 255, 255>>]),
      Picture(4, 2, [k \in 1..8 |-> IF k % 2 = 0 THEN <<128, 128, 128>>
                                    ELSE <<1, 0, 0>>]) }

StageGrid == [cellWidth |-> 2, cellHeight |-> 2, samplesPerCircle |-> 9, circleRadius |-> 25]

\* exponents below, at and above 1
StageOptions ==
    { [contrast |-> c, directionalContrast |-> d, enableDirectionalContrast |-> e] :
        c \in {Exponent(1, 2), Exponent(3, 2), Exponent(3, 1)},
        d \in {Exponent(1, 1), Exponent(2, 1)}, e \in BOOLEAN }

\* amplitudes 1.0 and -0.8 at the centre of the first cell, alone and
\* together, and the empty pool
StagePools ==
    LET up == createRipple(1, 1, [duration |-> 200, amplitude |-> FP], 0)
        down == createRipple(1, 1, [duration |-> 200, amplitude |-> -((8 * FP) \div 10)], 0)
    IN  { <<>>, <<up>>, <<down>>, <<up, up>>, <<down, down>> }

StageInit ==
    /\ pool \in StagePools
    /\ clock \in {0, TimeStep}
    /\ ever = <<>>
    /\ call = NoCall
    /\ LookupIdle
    /\ Unmounted

CallCellStages ==
    /\ call = NoCall
    /\ \E data \in StagePictures, options \in StageOptions :
           \E col \in 0..((data.width \div StageGrid.cellWidth) - 1) :
               \E stages \in {CellStages(data, StageGrid, options, pool, clock, col, 0)} :
                   call' = [fn |-> "renderAsciiFrame cell", data |-> data,
                            options |-> options, ripples |-> pool,
                            currentTime |-> clock, col |-> col, row |-> 0,
                            sampled |-> stages.sampled,
                            contrasted |-> stages.contrasted,
                            vector |-> stages.vector,
                            handed |-> CellVector(data, StageGrid, options, pool,
                                                  clock, col, 0)]
    /\ UNCHANGED <<sessionVars, lookupVars, componentVars>>

StageNext == CallCellStages

SpecStage == StageInit /\ [][StageNext]_vars

(***************************************************************************)
(* Claims about the vectors of a frame                                     *)
(***************************************************************************)
InUnitRange(vector) == \A i \in DOMAIN vector : 0 <= vector[i] /\ vector[i] <= FP

\* C23: in renderAsciiFrame the vector produced by sampling, the vector
\* after applyFullContrast and the vector after applyRippleToVector all have
\* every component in [0,1] when handed to the matcher.
C23_VectorsStayInUnitRange ==
    call.fn = "renderAsciiFrame cell" =>
        /\ Len(call.sampled) = 6 /\ InUnitRange(call.sampled)
        /\ Len(call.contrasted) = 6 /\ InUnitRange(call.contrasted)
        /\ Len(call.vector) = 6 /\ InUnitRange(call.vector)
        /\ call.handed = call.vector

\* a ripple of negative amplitude takes a contrasted component down to 0
C23_Witness ==
    /\ call.fn = "renderAsciiFrame cell"
    /\ Len(call.ripples) > 0
    /\ \E i \in 1..6 : /\ 0 < call.sampled[i]
                       /\ call.contrasted[i] < call.sampled[i]
                       /\ 0 < call.contrasted[i]
                       /\ call.vector[i] = 0

\* a ripple of positive amplitude takes a component up to 1
C23_WitnessTop ==
    /\ call.fn = "renderAsciiFrame cell"
    /\ Len(call.ripples) > 0
    /\ \E i \in 1..6 : call.contrasted[i] < FP /\ call.vector[i] = FP

(***************************************************************************)
(* Key session: generateCacheKey applied to two vectors                    *)
(***************************************************************************)
\* below 0, 0, either side of the first bucket edge, just below 1, 1, above 1
KeyValues == { -(FP \div 10), 0, FP \div RANGE - 1, FP \div RANGE, FP - 1, FP, 2 * FP }

\* one component set apart from the other five
KeyVectors ==
    { [i \in 1..6 |-> IF i = k THEN a ELSE b] :
        k \in 1..6, a \in KeyValues, b \in KeyValues }

KeyInit ==
    /\ call = NoCall
    /\ SessionIdle
    /\ LookupIdle
    /\ Unmounted

CallGenerateCacheKey ==
    /\ call = NoCall
    /\ \E v \in KeyVectors, w \in KeyVectors :
           call' = [fn |-> "generateCacheKey twice", v |-> v, w |-> w,
                    keyV |-> generateCacheKey(v), keyW |-> generateCacheKey(w)]
    /\ UNCHANGED <<sessionVars, lookupVars, componentVars>>

KeyNext == CallGenerateCacheKey

SpecKey == KeyInit /\ [][KeyNext]_vars

(***************************************************************************)
(* Claims about the cache key                                              *)
(***************************************************************************)
\* the bucket of a component: 0 for values <= 0, 31 for values >= 1, else
\* the 1/32 step the value lies in
BucketOf(value) ==
    IF value <= 0 THEN 0
    ELSE IF value >= FP THEN RANGE - 1
    ELSE CHOOSE b \in 0..(RANGE - 1) : b * FP <= value * RANGE /\ value * RANGE < (b + 1) * FP

BucketsOf(vector) == [i \in 1..6 |-> BucketOf(vector[i])]

\* C24: generateCacheKey clamps each component to a bucket in 0..31 and
\* packs the six buckets into a key in 0..2^30-1; two vectors get the same
\* key exactly when all six of their buckets are equal.
C24_KeyPacksSixBuckets ==
    call.fn = "generateCacheKey twice" =>
        /\ 0 <= call.keyV /\ call.keyV <= 2 ^ 30 - 1
        /\ 0 <= call.keyW /\ call.keyW <= 2 ^ 30 - 1
        /\ Buckets(call.keyV) = BucketsOf(call.v)
        /\ Buckets(call.keyW) = BucketsOf(call.w)
        /\ (call.keyV = call.keyW) <=> (BucketsOf(call.v) = BucketsOf(call.w))

\* two different vectors share all six buckets and the key, one of them
\* with a component above 1 in the first place
C24_Witness ==
    /\ call.fn = "generateCacheKey twice"
    /\ call.v # call.w
    /\ call.v[1] = 2 * FP
    /\ call.keyV = call.keyW
    /\ Buckets(call.keyV)[1] = RANGE - 1

\* the greatest key: every component at or above 1
C24_WitnessGreatest ==
    /\ call.fn = "generateCacheKey twice"
    /\ call.keyV = 2 ^ 30 - 1
    /\ call.keyW = 0

(***************************************************************************)
(* Cache session: findBest and clearCache on one CachedCharacterLookup;    *)
(* the call record keeps the vectors looked up since the cache was last    *)
(* empty                                                                   *)
(***************************************************************************)
CacheCatalogs == { ScenarioA, TieCatalog, NORMALIZED_CHARACTERS }

\* 0.5 and 0.5 + 1/64 share a key
CacheVectors ==
    { Uniform(v) : v \in LookupValues } \cup { <<0, FP, 0, FP, 0, FP>> }

CacheInit ==
    /\ characters \in CacheCatalogs
    /\ cache = EmptyMap
    /\ call = [fn |-> "constructor", lookups |-> <<>>]
    /\ SessionIdle
    /\ Unmounted

CacheFindBest ==
    /\ Len(call.lookups) < MaxLookups
    /\ \E samplingVector \in CacheVectors :
           \E r \in {findBest(samplingVector, characters, cache)} :
               /\ cache' = r.cache
               /\ call' = [fn |-> "findBest", samplingVector |-> samplingVector,
                           ret |-> r.ret, before |-> cache,
                           lookups |-> Append(call.lookups, samplingVector)]
    /\ UNCHANGED <<characters, sessionVars, componentVars>>

CacheClear ==
    /\ call.fn # "clearCache"
    /\ cache' = EmptyMap
    /\ call' = [fn |-> "clearCache", lookups |-> <<>>]
    /\ UNCHANGED <<characters, sessionVars, componentVars>>

CacheNext == CacheFindBest \/ CacheClear

SpecCache == CacheInit /\ [][CacheNext]_vars

(***************************************************************************)
(* Claims about the cache                                                  *)
(***************************************************************************)
\* the first vector among lookups that has the key
FirstWithKey(lookups, key) ==
    lookups[CHOOSE i \in DOMAIN lookups :
                /\ generateCacheKey(lookups[i]) = key
                /\ \A j \in 1..(i - 1) : generateCacheKey(lookups[j]) # key]

\* C25: after any sequence of findBest calls without clearCache the cache
\* holds exactly one entry per distinct key looked up, each the
\* findBestCharacter result for the first vector looked up with that key;
\* a later findBest for a vector of that key returns that character and
\* leaves the entries as they were; after clearCache the cache is empty.
C25_CacheKeepsFirstResult ==
    "lookups" \in DOMAIN call =>
        /\ DOMAIN cache = { generateCacheKey(call.lookups[i]) : i \in DOMAIN call.lookups }
        /\ \A key \in DOMAIN cache :
               cache[key] = findBestCharacter(FirstWithKey(call.lookups, key), characters)
        /\ call.fn = "findBest" =>
               /\ call.ret = cache[generateCacheKey(call.samplingVector)]
               /\ \A key \in DOMAIN call.before : cache[key] = call.before[key]
        /\ call.fn = "clearCache" => cache = EmptyMap

\* a second vector of a cached key, whose own scan gives another character,
\* gets the character of the first
C25_Witness ==
    /\ "lookups" \in DOMAIN call
    /\ call.fn = "findBest"
    /\ generateCacheKey(call.samplingVector) \in DOMAIN call.before
    /\ call.ret # findBestCharacter(call.samplingVector, characters)
    /\ call.ret = findBestCharacter(call.lookups[1], characters)
    /\ Cardinality(DOMAIN cache) = 2

\* a cache that held entries is empty after clearCache
C25_WitnessCleared ==
    /\ "lookups" \in DOMAIN call
    /\ call.fn = "clearCache"
    /\ cache = EmptyMap

(***************************************************************************)
(* components/AsciiVideo.tsx: the animation loop.  pool is the committed   *)
(* `ripples` state.  A state update made by an event handler or by animate *)
(* is rendered, and the animation effect re-run on it, before the next     *)
(* animation frame; the effect re-runs when isReady, isPlaying, canvasDims *)
(* or ripples changed, and then requests a frame if shouldRun.  A frame is *)
(* known by the time it was captured at and the ripples it was rendered    *)
(* with, not by its characters.                                            *)
(***************************************************************************)
\* shouldRun of the animation effect, on the state c
ShouldRun(ready, playing, ripples) == ready /\ (playing \/ Len(ripples) > 0)

\* elapsed >= frameInterval, with frameInterval = 1000 / fps
IntervalPassed(elapsed, fps) == elapsed * fps >= 1000

\* mutant: the throttle also lets through a frame half an interval early
IntervalPassedEarly(elapsed, fps) == 2 * elapsed * fps >= 1000

\* shouldCapture of animate(timestamp)
ShouldCapture(timestamp) ==
    isPlaying /\ IntervalPassed(timestamp - lastFrameTimeRef, props.fps)

(***************************************************************************)
(* Video session: one mounted AsciiVideo; the metadata loads, the video    *)
(* plays and pauses, the user clicks, animation frames fire, time passes   *)
(***************************************************************************)
\* 5 and 15 (the default) frames per second: 200 ms and 66.7 ms a frame
VideoProps ==
    { [enableRipple |-> TRUE, enableRain |-> FALSE, rippleCount |-> 1,
       rippleConfig |-> [duration |-> 200], width |-> 1, height |-> 1,
       cellWidth |-> 2, cellHeight |-> 2, fps |-> fps] : fps \in {5, 15} }

VideoSizes == { [width |-> 4, height |-> 2] }

VideoInit ==
    /\ props \in VideoProps
    /\ ComponentIdle
    /\ pool = <<>>
    /\ clock = 0
    /\ ever = <<>>
    /\ call = NoCall
    /\ LookupIdle

videoFrame == <<ever, lookupVars, props, imageData, animatedAsciiData,
                staticAsciiData, updates, closure, dirty, rainOn>>

\* handleLoadedMetadata
HandleLoadedMetadata ==
    /\ canvasDims = Null
    /\ \E video \in VideoSizes : canvasDims' = Some(TargetSize(video, props))
    /\ rafPending' = ShouldRun(TRUE, isPlaying, pool)
    /\ call' = [fn |-> "handleLoadedMetadata"]
    /\ UNCHANGED <<pool, clock, isPlaying, lastFrameTimeRef, asciiFrame, lastCapture,
                   videoFrame>>

\* handlePlay
HandlePlay ==
    /\ ~isPlaying
    /\ isPlaying' = TRUE
    /\ rafPending' = ShouldRun(canvasDims # Null, TRUE, pool)
    /\ lastCapture' = Null
    /\ call' = [fn |-> "handlePlay"]
    /\ UNCHANGED <<pool, clock, canvasDims, lastFrameTimeRef, asciiFrame, videoFrame>>

\* handlePause and handleEnded
HandlePause ==
    /\ isPlaying
    /\ isPlaying' = FALSE
    /\ rafPending' = ShouldRun(canvasDims # Null, FALSE, pool)
    /\ lastCapture' = Null
    /\ call' = [fn |-> "handlePause"]
    /\ UNCHANGED <<pool, clock, canvasDims, lastFrameTimeRef, asciiFrame, videoFrame>>

\* handleClick of AsciiVideo
VideoHandleClick ==
    /\ props.enableRipple
    /\ canvasDims # Null
    /\ Len(pool) + props.rippleCount <= MaxSpawned
    /\ \E p \in ImagePoints :
           LET newRipples == Burst(p[1], p[2], props.rippleConfig, clock,
                                   props.rippleCount, 0)
           IN  /\ pool' = pool \o newRipples
               /\ rafPending' = ShouldRun(TRUE, isPlaying, pool')
               /\ call' = [fn |-> "handleClick", clickX |-> p[1], clickY |-> p[2],
                           rippleCount |-> props.rippleCount, now |-> clock,
                           newRipples |-> newRipples]
    /\ UNCHANGED <<clock, videoVars, videoFrame>>

\* animate(timestamp), run by requestAnimationFrame at the next animation
\* frame, one step after the last event; captureFrame returns a frame
\* because canvasDims is set
VideoAnimate ==
    /\ rafPending
    /\ clock + TimeStep <= MaxTime
    /\ clock' = clock + TimeStep
    /\ LET timestamp == clock'
           now == clock'
           shouldCapture == ShouldCapture(timestamp)
           activeRipples == pruneExpiredRipples(pool, now)
           recaptured == ~shouldCapture /\ Len(pool) > 0
           rendered == shouldCapture
                       \/ (recaptured /\ hasActiveRipples(activeRipples, now))
       IN  /\ lastFrameTimeRef' = IF shouldCapture THEN timestamp ELSE lastFrameTimeRef
           /\ pool' = IF shouldCapture \/ recaptured THEN activeRipples ELSE pool
           /\ asciiFrame' = IF rendered
                            THEN Some([capturedAt |-> now, ripples |-> activeRipples])
                            ELSE asciiFrame
           /\ lastCapture' = IF rendered THEN Some(timestamp) ELSE lastCapture
           /\ rafPending' = IF Len(pool') # Len(pool)
                            THEN ShouldRun(TRUE, isPlaying, pool')
                            ELSE isPlaying \/ hasActiveRipples(pool, now)
           /\ call' = [fn |-> "animate", timestamp |-> timestamp,
                       isPlaying |-> isPlaying, fps |-> props.fps,
                       ripples |-> pool, shouldCapture |-> shouldCapture,
                       rendered |-> rendered, previousCapture |-> lastCapture]
    /\ UNCHANGED <<isPlaying, canvasDims, videoFrame>>

\* performance.now() moves on while no animation frame is requested
VideoTick ==
    /\ ~rafPending
    /\ clock + TimeStep <= MaxTime
    /\ clock' = clock + TimeStep
    /\ UNCHANGED <<pool, ever, call, lookupVars, componentVars>>

VideoNext ==
    \/ HandleLoadedMetadata
    \/ HandlePlay
    \/ HandlePause
    \/ VideoHandleClick
    \/ VideoAnimate
    \/ VideoTick

SpecVideo == VideoInit /\ [][VideoNext]_vars

(***************************************************************************)
(* Claims about the video loop                                             *)
(***************************************************************************)
\* C26: while the video is playing, two consecutive frame captures
\* (captureFrame followed by renderAsciiFrame) are at least 1000/fps ms
\* apart, whether or not ripples are present in the pool.
C26_CapturesThrottledToFps ==
    (/\ call.fn = "animate"
     /\ call.isPlaying
     /\ call.rendered
     /\ call.previousCapture # Null)
        => (call.timestamp - call.previousCapture[1]) * call.fps >= 1000

\* the same with no ripple in the pool
C26_ThrottledWithoutRipples ==
    (/\ call.fn = "animate"
     /\ call.isPlaying
     /\ call.rendered
     /\ call.ripples = <<>>
     /\ call.previousCapture # Null)
        => (call.timestamp - call.previousCapture[1]) * call.fps >= 1000

(***************************************************************************)
(* Claims about pruning and rendering                                      *)
(***************************************************************************)
\* C27: for every vector with components in [0,1], every pool and every
\* currentTime, applyRippleToVector over the pool equals applyRippleToVector
\* over pruneExpiredRipples(pool, currentTime); pruning is idempotent at a
\* fixed time; hasActiveRipples(pool, t) is true exactly when
\* pruneExpiredRipples(pool, t) is non-empty.
C27_PruningKeepsTheRender ==
    (call.fn = "applyRippleToVector" /\ InUnitRange(call.vector)) =>
        LET t == call.currentTime
            pruned == pruneExpiredRipples(call.ripples, t)
        IN  /\ call.ret = applyRippleToVector(call.vector, call.cellCenterX,
                                              call.cellCenterY, pruned, t)
            /\ pruneExpiredRipples(pruned, t) = pruned
            /\ hasActiveRipples(call.ripples, t) <=> (pruned # <<>>)

\* a pool of one expired and one running ripple: pruning drops the first,
\* and the vector is moved by the second
C27_Witness ==
    /\ call.fn = "applyRippleToVector"
    /\ InUnitRange(call.vector)
    /\ Len(call.ripples) = 2
    /\ Len(pruneExpiredRipples(call.ripples, call.currentTime)) = 1
    /\ call.ripples[1].startTime + call.ripples[1].config.duration < call.currentTime
    /\ call.ret # call.vector

\* a pool of expired ripples only: nothing is active, pruning empties it
C27_WitnessAllExpired ==
    /\ call.fn = "applyRippleToVector"
    /\ InUnitRange(call.vector)
    /\ Len(call.ripples) = 2
    /\ pruneExpiredRipples(call.ripples, call.currentTime) = <<>>
    /\ ~hasActiveRipples(call.ripples, call.currentTime)
    /\ call.ret = call.vector

\* a ripple whose elapsed time equals its duration is kept and is active
C27_WitnessBoundary ==
    /\ call.fn = "applyRippleToVector"
    /\ InUnitRange(call.vector)
    /\ Len(call.ripples) = 1
    /\ call.ripples[1].startTime + call.ripples[1].config.duration = call.currentTime
    /\ pruneExpiredRipples(call.ripples, call.currentTime) = call.ripples
    /\ hasActiveRipples(call.ripples, call.currentTime)

(***************************************************************************)
(* Quiet session: one mounted AsciiImage with rain disabled; the user      *)
(* clicks only at time 0, after which no ripple is added.                  *)
(***************************************************************************)
\* contrast enhancement is switched off: it plays no part in the loop
QuietProps ==
    { [enableRipple |-> TRUE, enableRain |-> FALSE, rippleCount |-> n,
       rippleConfig |-> config, width |-> 1, height |-> 1,
       cellWidth |-> 2, cellHeight |-> 2,
       contrast |-> Exponent(1, 1), directionalContrast |-> Exponent(1, 1),
       enableDirectionalContrast |-> FALSE] :
        n \in 1..MaxRippleCount, config \in ImageRippleConfigs }

QuietInit ==
    /\ props \in QuietProps
    /\ ComponentIdle
    /\ pool = <<>>
    /\ clock = 0
    /\ ever = <<>>
    /\ call = NoCall
    /\ characters = NORMALIZED_CHARACTERS
    /\ cache = EmptyMap

\* the last clicks
QuietClick == clock = 0 /\ HandleClick

\* performance.now() moves on by one step
QuietTick ==
    /\ updates = <<>>
    /\ dirty = {}
    /\ clock + TimeStep <= MaxTime
    /\ clock' = clock + TimeStep
    /\ UNCHANGED <<pool, ever, call, lookupVars, componentVars>>

QuietNext ==
    QuietTick \/ ImgOnload \/ FlushEffects \/ QuietClick \/ Render \/ AnimateFrame

\* whatever can happen next does happen (the image loads, React renders and
\* runs effects, a requested animation frame fires), and time advances
\* whenever React has no work pending
SpecQuiet ==
    /\ QuietInit
    /\ [][QuietNext]_vars
    /\ WF_vars(QuietNext)
    /\ SF_vars(QuietTick)

(***************************************************************************)
(* Claims about the end of the animation                                   *)
(***************************************************************************)
\* the pool is empty, no frame is requested, nothing is queued, and the
\* displayed grid is the static render: renderAsciiFrame of the image with
\* an empty pool, as computed when the image was loaded
Settled ==
    /\ imageData # Null
    /\ pool = <<>>
    /\ ~rafPending
    /\ updates = <<>>
    /\ asciiData # Null
    /\ asciiData = staticAsciiData
    /\ asciiData[1] = AsciiDataOf(renderAscii(imageData[1], <<>>, 0, EmptyMap))

\* C28: if no new ripple is added and animation frames keep firing with
\* advancing timestamps, the animation loop eventually prunes the pool to
\* empty, stops scheduling frames, and the displayed grid becomes the static
\* render of the image.
C28_AnimationSettles == <>[]Settled

\* ripples were added, and the component has settled after their end
C28_Witness ==
    /\ props # <<>>
    /\ Len(ever) = 2
    /\ clock > ever[2].startTime + ever[2].config.duration
    /\ Settled


(***************************************************************************)
(* AsciiImage.tsx: the text the component displays                         *)
(***************************************************************************)
\* Array.prototype.join
RECURSIVE Join(_, _)
Join(strings, separator) ==
    IF Len(strings) = 0 THEN ""
    ELSE IF Len(strings) = 1 THEN strings[1]
    ELSE strings[1] \o separator \o Join(Tail(strings), separator)

\* asciiData.chars.map(row => row.join('')).join('\n'), or the placeholder
asciiString ==
    IF asciiData # Null
    THEN Join([r \in DOMAIN asciiData[1].chars |-> Join(asciiData[1].chars[r], "")],
              "\n")
    ELSE "Loading..."

\* C29: once the image data has been loaded, the displayed text is never
\* the 'Loading...' placeholder, also right after a click or a rain drop
\* makes the pool non-empty and right after the last ripple expires.
C29_NeverLoadingOnceLoaded ==
    (props # <<>> /\ imageData # Null) => asciiString # "Loading..."

\* the grid is displayed before any ripple and after the last one expired
C29_GridWhileIdle ==
    (props # <<>> /\ imageData # Null /\ pool = <<>>) => asciiString # "Loading..."


(***************************************************************************)
(* Circle session: one call of sampleCircle on a buffer of one colour      *)
(***************************************************************************)
MaxSamples == 17

CircleCentres == { FP, 2 * FP, (5 * FP) \div 2 }

CircleRadii == { 0, FP \div 2, FP, 3 * FP }

CirclePictures ==
    { Picture(size[1], size[2], [k \in 1..(size[1] * size[2]) |-> colour]) :
        size \in { <<4, 4>>, <<5, 3>> }, colour \in SampleColours }

\* how many points of the candidate grid pass the unit-circle test
QualifyingPoints(image, centerX, centerY, radius, numSamples) ==
    CircleFrom(image, centerX, centerY, radius, CeilSqrt(numSamples), 0,
               [total |-> 0, count |-> 0]).count

CircleInit ==
    /\ call = NoCall
    /\ LookupIdle
    /\ SessionIdle
    /\ Unmounted

CallSampleCircle ==
    /\ call = NoCall
    /\ \E image \in CirclePictures, centerX \in CircleCentres, centerY \in CircleCentres,
          radius \in CircleRadii, numSamples \in 1..MaxSamples :
           call' = [fn |-> "sampleCircle", imageData |-> image, centerX |-> centerX,
                    centerY |-> centerY, radius |-> radius, numSamples |-> numSamples,
                    count |-> QualifyingPoints(image, centerX, centerY, radius,
                                               numSamples),
                    ret |-> sampleCircle(image, centerX, centerY, radius, numSamples)]
    /\ UNCHANGED <<sessionVars, lookupVars, componentVars>>

CircleNext == CallSampleCircle

SpecCircle == CircleInit /\ [][CircleNext]_vars

\* the bounding box of the disc lies inside the buffer
RegionInside(c) ==
    /\ c.centerX - c.radius >= 0
    /\ c.centerX + c.radius < c.imageData.width * FP
    /\ c.centerY - c.radius >= 0
    /\ c.centerY + c.radius < c.imageData.height * FP

UniformCall ==
    call.fn = "sampleCircle" /\ Solid(call.imageData) /\ RegionInside(call)

LightnessOf(image) == Luma(image.data[1], image.data[2], image.data[3])

C30_WitnessGrid ==
    /\ UniformCall
    /\ call.numSamples = 10
    /\ call.radius > 0
    /\ call.count = 4
    /\ call.ret = FP

====
